---- MODULE Spec2Model ----
(***************************************************************************)
(* Cross-store consistency engine of insight-tracker (backend/app/db).     *)
(*                                                                         *)
(* The key-value store is modelled by its lock keys and cache keys, the    *)
(* graph store by the list of its Insight nodes.  A store round trip made  *)
(* through _execute_with_retry is one step: its failed attempts change     *)
(* nothing in the store (a failed attempt is one the store did not apply)  *)
(* and the sleeps between them only delay the step, so the step is taken   *)
(* with the number of attempts that failed as its input.  A coroutine can  *)
(* be suspended between two round trips (every await), and store time      *)
(* (key expiry) advances between any two steps.                            *)
(***************************************************************************)
EXTENDS Integers, Sequences, FiniteSets, TLC

\* ---------------------------------------------------------------- bounds
NumProcs == 2          \* concurrent callers (coroutines)
MaxCalls == 2          \* lock API calls a caller makes one after the other
MaxSyncs == 1          \* sync_insight calls a caller makes one after the other
NumIds == 1            \* entity ids / lock names
MaxTtl == 2            \* largest lock ttl, in ticks of store time
NumTitles == 2         \* distinct titles a record can carry
NumEntities == 3       \* entity ids the two stores can hold (NumIds of them are synced)
MaxCopies == 2         \* most Insight nodes with one id the graph store starts with
MaxEdges == 2          \* most edges the graph store starts with, or create_relationship fills it to
MaxSweeps == 2         \* reconciliation sweeps run one after the other
NumRequesters == 1     \* web requests in flight while a sweep runs
MaxSteps == 3          \* most steps of a batch
MaxAttempts == 3       \* largest max_retry_attempts a client is constructed with
MaxBaseDelay == 2      \* largest retry_delay a client is constructed with, in units of time
NumTasks == 2          \* coroutines calling init_*, get_*, close_*, check_health
MaxOps == 2            \* calls a coroutine makes one after the other
MaxInstances == 3      \* client objects constructed in one run
MaxFailures == 3       \* failed round trips in the logs of the coroutines that interleave
MaxRepairs == 1        \* single-entity and relationship repairs run one after the other
NumClients == 2        \* requests of one rate-limit key in flight
MaxRequests == 2       \* requests a client sends one after the other
MaxLimit == 2          \* largest limit of a rate-limit check
MaxWindow == 2         \* largest window of a rate-limit check, in ticks of store time
NumTags == 2           \* distinct tag names
MaxNodes == 2          \* most Insight nodes create_insight_node calls fill the graph store to

\* ------------------------------------------------------ program constants
MaxRetryAttempts == 3  \* RedisClient.__init__ max_retry_attempts
Neo4jMaxRetries == 3   \* Neo4jManager._run_transaction max_retries

Procs == 1..NumProcs
Ids == 1..NumIds
Ttls == 1..MaxTtl
Titles == 1..NumTitles
Entities == 1..NumEntities
Requesters == 1..NumRequesters
Ops == {"create", "update", "delete"}
Stores == {"mongodb", "neo4j", "redis"}
Tasks == 1..NumTasks
Clients == 1..NumClients
Tags == 1..NumTags

\* the tags field of a document: no tag (the default of the Insight model), one, two
TagLists == {<<>>, <<1>>, <<1, 2>>}

\* lock_value presented by caller p: distinct callers use distinct tokens
Token(p) == p

\* user_id of the record with id i
OwnerOf(i) == i

VARIABLES
    lock,        \* lock[n]: key lock:insight:<n>: val = <<>> (absent) or <<token>>, ttl = ticks left
    cache,       \* cache keys present in the key-value store
    nodes,       \* Insight nodes of the graph store, in creation order
    edges,       \* edges of the graph store that touch an Insight node
    detached,    \* the edges the last DETACH DELETE removed with its nodes
    uniqueId,    \* whether the graph store holds the insight_id uniqueness constraint of _init_graph_db
    pc,          \* pc[p]: position of caller p
    call,        \* call[p]: the call p is making and its arguments
    cur,         \* cur[p]: current_value read by release_lock
    todo,        \* todo[p]: cache commands p's call still has to issue
    res,         \* res[p]: outcome of p's last call
    calls,       \* calls[p]: number of calls p has started
    startVal,    \* startVal[p]: value of the lock key when p's lock API call started
    removed,     \* removed[p]: the lock key was removed (expiry or delete) since p's lock API call started
    acq,         \* acq[p]: outcome of the acquire_lock of p's call
    rel,         \* rel[p]: outcome of the release_lock of p's call
    exhausted,   \* exhausted[p]: the round trips of p's call that failed on every attempt
    after,       \* after[p]: the callers whose call had ended when p's call started
    docs,        \* docs[i]: the insights document with _id i: <<>> (none) or <<title, tags>>
    spc,         \* position of perform_full_consistency_check
    mongo_insights,  \* its local mongo_insights: what it read of docs
    neo4j_ids,   \* its local neo4j_ids
    missing,     \* ids of missing_in_neo4j its first loop has not reached yet
    orphaned,    \* ids of orphaned_in_neo4j its second loop has not reached yet
    tagging,     \* <<i, tags>> while _create_insight_in_neo4j has to add these tags to i, else <<>>
    sret,        \* what the current sweep returned: <<>> as long as it has not returned
    prior,       \* what the sweep before the current one returned, <<>> if there is none
    logged,      \* the counts of its last log line: <<created, removed>>, or <<>>
    sweeps,      \* number of sweeps started
    repairs,     \* repair queries (CREATE, MERGE, DETACH DELETE) the current sweep has run
    docs0,       \* docs when the current sweep started
    ids0,        \* ids of the Insight nodes when the current sweep started
    sync0,       \* <<pc, calls>> of the callers when the current sweep started
    operations,  \* the batch given to ensure_transaction
    bpc,         \* position of ensure_transaction
    step,        \* index of the operation (or of the rollback entry) it is at
    mongodb_operations,  \* its local mongodb_operations, as the steps that gave them
    neo4j_operations,    \* its local neo4j_operations, as the steps that gave them
    blog,        \* the calls it made so far, in order
    bret,        \* what it returned: "none", "true", "false", "raised"
    rwrap,       \* the retry loop running: <<store, "execute" or "connect">>
    rclient,     \* whether the client's _client / _driver is set when the loop is called
    rmax,        \* the client's _max_retry_attempts
    rbase,       \* the client's _retry_delay
    rattempt,    \* the loop variable attempt
    rlog,        \* what the loop did so far: <<"call", attempt, outcome>>, <<"sleep", wait_time>>
    rret,        \* how it ended: <<>>, <<"returned", value>> or <<"raised", error>>
    rpc,         \* its position: "idle", "attempt", "done"
    singleton,   \* singleton[s]: the module global <s>_client: 0 (None) or an instance
    inst,        \* inst[c]: the client object c: <<store, _client is set, its ping answered>>
    tpc,         \* tpc[t]: position of coroutine t
    tcall,       \* tcall[t]: the function t is in and its store
    tinst,       \* tinst[t]: the client object t's call works on, 0 if none
    tatt,        \* tatt[t]: attempt of the connect loop t is in
    tinner,      \* tinner[t]: attempt of the run_query loop t is in, 0 when it is in none
    tlog,        \* tlog[t]: what t's call awaited: <<"ping", outcome>>, <<"sleep", wait_time>>
    tres,        \* tres[t]: outcome of t's last call
    tcalls,      \* tcalls[t]: number of calls t has started
    eref,        \* eref[t]: the clients get_* gave the /health request of t, by store
    estatus,     \* estatus[t]: db_status of the /health request of t, by store
    xpc,         \* position of ensure_insight_consistency / ensure_relationship_consistency
    xcall,       \* the repair called and its ids: <<kind, insight_id or source_id, target_id>>
    xfound,      \* its locals: <<mongo_insight or source, target>>, <<>> for None
    xtags,       \* the tags its _create_insight_in_neo4j has still to add
    xret,        \* what it returned: <<>> as long as it has not returned
    xg0,         \* <<nodes, edges>> when it was called
    xcalls,      \* number of repairs started
    ctr,         \* the rate-limit counter key: <<value, ttl>>; value 0 is no key, ttl 0 is no expiry
    qpc,         \* qpc[c]: position of the request of client c
    qarg,        \* qarg[c]: <<limit, window>> of its check_rate_limit
    qctr,        \* qctr[c]: the local counter of increment_counter
    qres,        \* qres[c]: outcome of the last request of c
    qcalls,      \* qcalls[c]: number of requests c has sent
    vpc,         \* position of verify_database_consistency and of the task it creates
    vsnap        \* mongo_insights, the argument of the task _process_consistency_check

\* the call p is making
Kind(p) == call[p][1]
IdOf(p) == call[p][2]
TtlOf(p) == call[p][3]
OpOf(p) == call[p][4]
TitleOf(p) == call[p][5]
TagsOf(p) == call[p][6]

kvVars == <<lock, cache>>
graphVars == <<nodes, edges, detached, uniqueId>>
sweepVars == <<spc, mongo_insights, neo4j_ids, missing, orphaned, tagging, sret, prior,
               logged, sweeps, repairs, docs0, ids0, sync0>>
batchVars == <<operations, bpc, step, mongodb_operations, neo4j_operations, blog, bret>>
retryVars == <<rwrap, rclient, rmax, rbase, rattempt, rlog, rret, rpc>>
clientVars == <<singleton, inst, tpc, tcall, tinst, tatt, tinner, tlog, tres, tcalls>>
endVars == <<eref, estatus>>
repairVars == <<xpc, xcall, xfound, xtags, xret, xg0, xcalls>>
rateVars == <<ctr, qpc, qarg, qctr, qres, qcalls>>
startVars == <<vpc, vsnap>>
syncVars == <<pc, call, cur, todo, res, calls, startVal, removed, acq, rel, exhausted, after>>
vars == <<lock, cache, nodes, edges, detached, uniqueId, pc, call, cur,
          todo, res, calls, startVal, removed, acq, rel, exhausted, after,
          docs, sweepVars, batchVars, retryVars, clientVars, endVars, repairVars, rateVars,
          startVars>>

\* ------------------------------------------------------------ key-value store
\* a key of the store: its value, <<>> (absent) or <<value>>, and the ticks it has left
Entry(val, ttl) == <<val, ttl>>
Val(e) == e[1]
Ttl(e) == e[2]

Absent == Entry(<<>>, 0)

\* SET key value EX ttl, without NX
SetPlainEx(store, n, v, t) ==
    <<[store EXCEPT ![n] = Entry(<<v>>, t)], TRUE>>

\* SET key value NX EX ttl: creates the key only if it is absent.
\* The result is <<store after, reply>>: reply TRUE is redis-py's True, FALSE its None.
SetNxEx(store, n, v, t) ==
    IF Val(store[n]) = <<>>
    THEN <<[store EXCEPT ![n] = Entry(<<v>>, t)], TRUE>>
    ELSE <<store, FALSE>>

\* GET key: <<>> is redis-py's None
Get(store, n) == Val(store[n])

\* an ownership test that only looks whether the key exists
OwnsIfPresent(current_value, value) == current_value # <<>>

\* release_lock's ownership test, the negation of `current_value != lock_value`
Owns(current_value, value) == current_value = value

\* DEL key
Delete(store, n) == [store EXCEPT ![n] = Absent]

\* one tick of store time: every key's ttl decreases, a key at its last tick expires
Expire(store) ==
    [n \in DOMAIN store |->
        IF Val(store[n]) = <<>> THEN store[n]
        ELSE IF Ttl(store[n]) <= 1 THEN Absent
        ELSE Entry(Val(store[n]), Ttl(store[n]) - 1)]

\* _execute_with_retry gives up: the attempts that failed are all it may make
RetriesExhausted(failures) == failures >= MaxRetryAttempts

\* a wrapper that swallows the last failure and returns a value
ExhaustedSwallowed == "true"

\* what _execute_with_retry does when the last attempt failed: `raise`
ExhaustedOutcome == "raised"

BoolStr(b) == IF b THEN "true" ELSE "false"

\* cache keys: insight:<id>, insights:user:<user_id>:<page>, mindmap:<id>:<depth>
CacheKey(kind, of) == <<kind, of>>

AllCacheKeys ==
    {CacheKey(k, i) : k \in {"insight", "user", "mindmap"}, i \in Ids}

\* KEYS <kind>:<of>:*
Keys(c, kind, of) == {k \in c : k = CacheKey(kind, of)}

\* ------------------------------------------------------------------ graph store
\* an Insight node: its id property, its title, the properties written on create only
\* (user_id, standing for user_id and created_at) and its tags property: <<>> when the
\* node has none, <<tags>> when it has the list tags
Node(i, title, user, tags) == <<i, title, user, tags>>
NodeId(n) == n[1]
NodeTitle(n) == n[2]
NodeUser(n) == n[3]
NodeTags(n) == n[4]

\* a relationship: (s)-[:RELATED_TO]->(t) between two Insight nodes, or
\* (s)-[:HAS_TAG]->(t) from an Insight node to the Tag node named t. Several
\* relationships of one type can join nodes with the same two ids (CREATE adds one at
\* every call, and one for every node carrying the id); k tells them apart, as id(r)
\* does in the store
Edge(type, s, t, k) == <<type, s, t, k>>

\* the relationships of one type from nodes with id s to nodes with id (or name) t
Parallel(e, type, s, t) == {x \in e : x[1] = type /\ x[2] = s /\ x[3] = t}

\* e and n more relationships of that type between them, under the first n unused k
AddParallel(e, type, s, t, n) ==
    LET used == {x[4] : x \in Parallel(e, type, s, t)}
        free == (1..(Cardinality(used) + n)) \ used
    IN e \cup {Edge(type, s, t, k) : k \in {j \in free : Cardinality({h \in free : h < j}) < n}}

\* the edges left when the Insight nodes with id i are deleted with DETACH
DetachEdges(e, i) == {x \in e : x[2] # i /\ ~(x[1] = "RELATED_TO" /\ x[3] = i)}

\* the edges that touch an Insight node with id i
EdgesOf(e, i) == e \ DetachEdges(e, i)

\* neo4j_props: title and tags, and on create created_at and user_id
Props(title, user, tags) == <<title, user, tags>>

\* Neo4jManager.create_insight_node: CREATE (i:Insight $props)
CreateInsightNode(g, i, props) ==
    Append(g, Node(i, props[1], props[2], <<props[3]>>))

\* Neo4jManager.update_insight_node: MATCH (i:Insight {id: $id}) SET i += $props
UpdateInsightNode(g, i, props) ==
    [k \in DOMAIN g |->
        IF NodeId(g[k]) = i THEN Node(i, props[1], NodeUser(g[k]), <<props[3]>>) ELSE g[k]]

\* Neo4jManager.delete_insight_node: MATCH (i:Insight {id: $id}) DETACH DELETE i
DeleteInsightNode(g, i) == SelectSeq(g, LAMBDA n : NodeId(n) # i)

\* the CREATE violates the insight_id uniqueness constraint of _init_graph_db
ConstraintViolated(g, i) == uniqueId /\ \E k \in DOMAIN g : NodeId(g[k]) = i

\* number of Insight nodes with id i
CountId(g, i) == Cardinality({k \in DOMAIN g : NodeId(g[k]) = i})

\* n Insight nodes with id i, as create_insight_node creates them from a record with
\* title 1 and tags [1]
Copies(i, n) == [k \in 1..n |-> Node(i, 1, OwnerOf(i), <<<<1>>>>)]

\* the node list with cnt[j] nodes for every id j up to i
RECURSIVE NodesOf(_, _)
NodesOf(cnt, i) == IF i = 0 THEN <<>> ELSE NodesOf(cnt, i - 1) \o Copies(i, cnt[i])

\* the subsets of S with at most k elements
RECURSIVE SubsetsUpTo(_, _)
SubsetsUpTo(S, k) ==
    IF k = 0 THEN {{}}
    ELSE LET T == SubsetsUpTo(S, k - 1) IN T \cup {t \cup {x} : t \in T, x \in S}

\* the edges a graph store whose Insight nodes have the ids of I can hold
EdgesAmong(I) ==
    {Edge("RELATED_TO", a, b, k) : a \in I, b \in I, k \in 1..MaxEdges}
        \cup {Edge("HAS_TAG", a, t, k) : a \in I, t \in Tags, k \in 1..MaxEdges}

\* the relationships between two ids are numbered from 1, and a node has one HAS_TAG
\* relationship to a tag at most (they are made by MERGE)
EdgesFit(e, cnt) ==
    \A x \in e :
        /\ x[4] > 1 => Edge(x[1], x[2], x[3], x[4] - 1) \in e
        /\ x[1] = "HAS_TAG" => x[4] <= cnt[x[2]]

\* a graph store left by earlier traffic: up to MaxCopies nodes per id (one at most
\* under the uniqueness constraint) and up to MaxEdges edges between them
GraphContents ==
    \E cnt \in [Entities -> 0..MaxCopies] :
        /\ uniqueId => \A i \in Entities : cnt[i] <= 1
        /\ nodes = NodesOf(cnt, NumEntities)
        /\ edges \in SubsetsUpTo(EdgesAmong({i \in Entities : cnt[i] > 0}), MaxEdges)
        /\ EdgesFit(edges, cnt)

\* a call: its kind ("acquire", "release", "sync", ..) and its arguments
Call(kind, i, t, op, title, tags) == <<kind, i, t, op, title, tags>>

NoCall == Call("none", 1, 1, "create", 1, <<>>)

\* no sweep was started
SweepIdle ==
    /\ spc = "idle"
    /\ mongo_insights = [i \in Entities |-> <<>>]
    /\ neo4j_ids = {}
    /\ missing = {}
    /\ orphaned = {}
    /\ tagging = <<>>
    /\ sret = <<>>
    /\ prior = <<>>
    /\ logged = <<>>
    /\ sweeps = 0
    /\ repairs = 0
    /\ docs0 = [i \in Entities |-> <<>>]
    /\ ids0 = {}
    /\ sync0 = <<>>

\* no batch was given
BatchIdle ==
    /\ operations = <<>>
    /\ bpc = "idle"
    /\ step = 0
    /\ mongodb_operations = <<>>
    /\ neo4j_operations = <<>>
    /\ blog = <<>>
    /\ bret = "none"

\* no retry loop was called
RetryIdle ==
    /\ rwrap = <<"redis", "execute">>
    /\ rclient = TRUE
    /\ rmax = MaxRetryAttempts
    /\ rbase = 1
    /\ rattempt = 0
    /\ rlog = <<>>
    /\ rret = <<>>
    /\ rpc = "idle"

\* the process has just started: no client object exists, no coroutine has made a call
ClientIdle ==
    /\ singleton = [s \in Stores |-> 0]
    /\ inst = <<>>
    /\ tpc = [t \in Tasks |-> "idle"]
    /\ tcall = [t \in Tasks |-> <<"none", "redis">>]
    /\ tinst = [t \in Tasks |-> 0]
    /\ tatt = [t \in Tasks |-> 0]
    /\ tinner = [t \in Tasks |-> 0]
    /\ tlog = [t \in Tasks |-> <<>>]
    /\ tres = [t \in Tasks |-> <<>>]
    /\ tcalls = [t \in Tasks |-> 0]

\* no /health request was made
EndIdle ==
    /\ eref = [t \in Tasks |-> [s \in Stores |-> 0]]
    /\ estatus = [t \in Tasks |-> [s \in Stores |-> FALSE]]

\* no repair was called
RepairIdle ==
    /\ xpc = "idle"
    /\ xcall = <<"none", 1, 1>>
    /\ xfound = <<<<>>, <<>>>>
    /\ xtags = <<>>
    /\ xret = <<>>
    /\ xg0 = <<<<>>, {}>>
    /\ xcalls = 0

\* no request was counted
RateIdle ==
    /\ ctr = <<0, 0>>
    /\ qpc = [c \in Clients |-> "idle"]
    /\ qarg = [c \in Clients |-> <<1, 1>>]
    /\ qctr = [c \in Clients |-> 0]
    /\ qres = [c \in Clients |-> "none"]
    /\ qcalls = [c \in Clients |-> 0]

\* verify_database_consistency was not called
StartIdle ==
    /\ vpc = "idle"
    /\ vsnap = [i \in Entities |-> <<>>]

\* no caller has made a call
SyncIdle ==
    /\ pc = [p \in Procs |-> "idle"]
    /\ call = [p \in Procs |-> NoCall]
    /\ cur = [p \in Procs |-> <<>>]
    /\ todo = [p \in Procs |-> <<>>]
    /\ res = [p \in Procs |-> "none"]
    /\ calls = [p \in Procs |-> 0]
    /\ startVal = [p \in Procs |-> <<>>]
    /\ removed = [p \in Procs |-> FALSE]
    /\ acq = [p \in Procs |-> "none"]
    /\ rel = [p \in Procs |-> "none"]
    /\ exhausted = [p \in Procs |-> {}]
    /\ after = [p \in Procs |-> {}]

Init ==
    /\ lock = [n \in Ids |-> Absent]
    /\ cache = AllCacheKeys
    /\ nodes = <<>>
    /\ edges = {}
    /\ detached = {}
    /\ uniqueId \in BOOLEAN
    /\ pc = [p \in Procs |-> "idle"]
    /\ call = [p \in Procs |-> NoCall]
    /\ cur = [p \in Procs |-> <<>>]
    /\ todo = [p \in Procs |-> <<>>]
    /\ res = [p \in Procs |-> "none"]
    /\ calls = [p \in Procs |-> 0]
    /\ startVal = [p \in Procs |-> <<>>]
    /\ removed = [p \in Procs |-> FALSE]
    /\ acq = [p \in Procs |-> "none"]
    /\ rel = [p \in Procs |-> "none"]
    /\ exhausted = [p \in Procs |-> {}]
    /\ after = [p \in Procs |-> {}]
    /\ docs = [i \in Entities |-> <<>>]
    /\ SweepIdle
    /\ BatchIdle
    /\ RetryIdle
    /\ ClientIdle
    /\ EndIdle
    /\ RepairIdle
    /\ RateIdle
    /\ StartIdle

\* p starts the call c, the limit-th call at most
Begun(p, c, limit) ==
    /\ pc[p] \in {"idle", "done"}
    /\ calls[p] < limit
    /\ calls' = [calls EXCEPT ![p] = @ + 1]
    /\ call' = [call EXCEPT ![p] = c]
    /\ cur' = [cur EXCEPT ![p] = <<>>]
    /\ startVal' = [startVal EXCEPT ![p] =
                       IF c[1] \in {"acquire", "release", "sync"} THEN Val(lock[c[2]]) ELSE <<>>]
    /\ removed' = [removed EXCEPT ![p] = FALSE]
    /\ rel' = [rel EXCEPT ![p] = "none"]
    /\ exhausted' = [exhausted EXCEPT ![p] = {}]
    /\ after' = [after EXCEPT ![p] = {q \in Procs \ {p} : pc[q] = "done"}]

\* p starts the call c at position at, with the cache commands cmds to issue: the
\* coroutine is suspended at its first round trip
Begin(p, c, at, cmds, limit) ==
    /\ Begun(p, c, limit)
    /\ pc' = [pc EXCEPT ![p] = at]
    /\ todo' = [todo EXCEPT ![p] = cmds]
    /\ res' = [res EXCEPT ![p] = "none"]
    /\ acq' = [acq EXCEPT ![p] = "none"]
    /\ UNCHANGED <<kvVars, graphVars, docs, sweepVars, batchVars, retryVars, clientVars, endVars, repairVars, rateVars, startVars>>

\* p's call ends with outcome r
Finish(p, r) ==
    /\ pc' = [pc EXCEPT ![p] = "done"]
    /\ res' = [res EXCEPT ![p] = r]

\* removed after the lock keys went from s to t
NoteRemoved(s, t) ==
    [p \in Procs |->
        \/ removed[p]
        \/ /\ Kind(p) \in {"acquire", "release"}
           /\ Val(s[IdOf(p)]) # <<>> /\ Val(t[IdOf(p)]) = <<>>]

\* ------------------------------------------------- RedisClient lock API
\* await redis.acquire_lock(n, Token(p), t)
StartAcquire(p, n, t) ==
    Begin(p, Call("acquire", n, t, "create", 1, <<>>), "acq", <<>>, MaxCalls)

\* await redis.release_lock(n, Token(p))
StartRelease(p, n) ==
    Begin(p, Call("release", n, 1, "create", 1, <<>>), "rel_get", <<>>, MaxCalls)

\* acquire_lock returned r ("true", "false") or raised ("raised") to p
AcquireReturns(p, r) ==
    /\ acq' = [acq EXCEPT ![p] = r]
    /\ Finish(p, r)

\* release_lock returned r or raised to p
ReleaseReturns(p, r) ==
    /\ rel' = [rel EXCEPT ![p] = r]
    /\ Finish(p, r)

\* acquire_lock: the SET NX EX round trip, after `failures` failed attempts
AcquireLock(p, failures) ==
    /\ pc[p] = "acq"
    /\ IF RetriesExhausted(failures)
       THEN /\ exhausted' = [exhausted EXCEPT ![p] = @ \cup {"acq"}]
            /\ AcquireReturns(p, ExhaustedOutcome)
            /\ UNCHANGED lock
       ELSE LET r == SetNxEx(lock, IdOf(p), Token(p), TtlOf(p))
            IN /\ lock' = r[1]
               /\ AcquireReturns(p, BoolStr(r[2]))
               /\ UNCHANGED exhausted
    /\ UNCHANGED <<cache, graphVars, call, cur, todo, calls, startVal, removed,
                   rel, after, docs, sweepVars, batchVars, retryVars, clientVars, endVars, repairVars, rateVars, startVars>>

\* release_lock: the GET round trip; a value other than the caller's ends the call
ReleaseGet(p, failures) ==
    /\ pc[p] = "rel_get"
    /\ IF RetriesExhausted(failures)
       THEN /\ exhausted' = [exhausted EXCEPT ![p] = @ \cup {"rel"}]
            /\ ReleaseReturns(p, ExhaustedOutcome)
            /\ UNCHANGED cur
       ELSE /\ cur' = [cur EXCEPT ![p] = Get(lock, IdOf(p))]
            /\ IF ~Owns(Get(lock, IdOf(p)), <<Token(p)>>)
               THEN ReleaseReturns(p, "false")
               ELSE /\ pc' = [pc EXCEPT ![p] = "rel_del"]
                    /\ UNCHANGED <<res, rel>>
            /\ UNCHANGED exhausted
    /\ UNCHANGED <<kvVars, graphVars, call, todo, calls, startVal,
                   removed, acq, after, docs, sweepVars, batchVars, retryVars, clientVars, endVars, repairVars, rateVars, startVars>>

\* release_lock: the DEL round trip
ReleaseDelete(p, failures) ==
    /\ pc[p] = "rel_del"
    /\ IF RetriesExhausted(failures)
       THEN /\ exhausted' = [exhausted EXCEPT ![p] = @ \cup {"rel"}]
            /\ ReleaseReturns(p, ExhaustedOutcome)
            /\ UNCHANGED <<lock, removed>>
       ELSE /\ lock' = Delete(lock, IdOf(p))
            /\ removed' = NoteRemoved(lock, lock')
            /\ ReleaseReturns(p, "true")
            /\ UNCHANGED exhausted
    /\ UNCHANGED <<cache, graphVars, call, cur, todo, calls, startVal,
                   acq, after, docs, sweepVars, batchVars, retryVars, clientVars, endVars, repairVars, rateVars, startVars>>

\* store time advances by one tick
Tick ==
    /\ \E n \in Ids : Val(lock[n]) # <<>>
    /\ lock' = Expire(lock)
    /\ removed' = NoteRemoved(lock, lock')
    /\ UNCHANGED <<cache, graphVars, pc, call, cur, todo, res,
                   calls, startVal, acq, rel, exhausted, after, docs, sweepVars,
                   batchVars, retryVars, clientVars, endVars, repairVars, rateVars, startVars>>

Attempts == 0..MaxRetryAttempts

LockNext ==
    \/ \E p \in Procs, n \in Ids, t \in Ttls : StartAcquire(p, n, t)
    \/ \E p \in Procs, n \in Ids : StartRelease(p, n)
    \/ \E p \in Procs, failures \in Attempts : AcquireLock(p, failures)
    \/ \E p \in Procs, failures \in Attempts : ReleaseGet(p, failures)
    \/ \E p \in Procs, failures \in Attempts : ReleaseDelete(p, failures)
    \/ Tick

LockInit == Init /\ uniqueId = TRUE

LockSpec == LockInit /\ [][LockNext]_vars

\* the process of caller p dies, between two calls or inside one: it takes no step
\* any more, and the key it may hold stays in the store
Crash(p) ==
    /\ pc[p] \notin {"idle", "crashed"}
    /\ pc' = [pc EXCEPT ![p] = "crashed"]
    /\ UNCHANGED <<kvVars, graphVars, call, cur, todo, res, calls, startVal,
                   removed, acq, rel, exhausted, after, docs, sweepVars,
                   batchVars, retryVars, clientVars, endVars, repairVars, rateVars, startVars>>

\* a round trip of the lock API call of p
LockStep(p) ==
    \E failures \in Attempts :
        AcquireLock(p, failures) \/ ReleaseGet(p, failures) \/ ReleaseDelete(p, failures)

LockLiveNext ==
    \/ LockNext
    \/ \E p \in Procs : Crash(p)

\* the store's clock runs, and the event loop resumes a call whose round trip is over
LockLiveSpec ==
    /\ LockInit
    /\ [][LockLiveNext]_vars
    /\ WF_vars(Tick)
    /\ \A p \in Procs : WF_vars(LockStep(p))

\* ------------------------------------------------- RedisClient cache API
\* a cache round trip: SET key value EX ttl ("set"), DEL of keys ("del"), or
\* KEYS <kind>:<of>:* ("keys")
Command(cmd, kind, of, keys) == <<cmd, kind, of, keys>>

\* await redis.set_cache(key, value) / set_json(key, value): one SET round trip. The key
\* is set with the client's default ttl, an hour, which outlasts every run considered.
SetCache(p, kind, of) ==
    Begin(p, Call("set_cache", of, 1, "create", 1, <<>>), "cache",
          <<Command("set", kind, of, {CacheKey(kind, of)})>>, MaxCalls)

\* await redis.delete_cache(key): one DEL round trip
DeleteCache(p, kind, of) ==
    Begin(p, Call("delete_cache", of, 1, "create", 1, <<>>), "cache",
          <<Command("del", kind, of, {CacheKey(kind, of)})>>, MaxCalls)

\* await redis.invalidate_pattern(pattern): KEYS pattern, then DEL of the keys found
InvalidatePattern(p, kind, of) ==
    Begin(p, Call("invalidate_pattern", of, 1, "create", 1, <<>>), "cache",
          <<Command("keys", kind, of, {})>>, MaxCalls)

\* the cache after the round trip c
CacheAfter(c, cmd) ==
    CASE cmd[1] = "set" -> c \cup cmd[4]
      [] cmd[1] = "del" -> c \ cmd[4]
      [] cmd[1] = "keys" -> c

\* the round trip at the head of todo, after `failures` failed attempts;
\* _execute_with_retry raises when every attempt failed
CacheCommand(p, failures) ==
    /\ pc[p] = "cache"
    /\ IF RetriesExhausted(failures)
       THEN /\ exhausted' = [exhausted EXCEPT ![p] = @ \cup {"cache"}]
            /\ Finish(p, ExhaustedOutcome)
            /\ UNCHANGED <<cache, todo>>
       ELSE LET c == Head(todo[p])
                found == Keys(cache, c[2], c[3])
                rest == IF c[1] = "keys" /\ found # {}
                        THEN <<Command("del", c[2], c[3], found)>> \o Tail(todo[p])
                        ELSE Tail(todo[p])
            IN /\ cache' = CacheAfter(cache, c)
               /\ todo' = [todo EXCEPT ![p] = rest]
               /\ IF rest = <<>> THEN Finish(p, "returned") ELSE UNCHANGED <<pc, res>>
               /\ UNCHANGED exhausted
    /\ UNCHANGED <<lock, graphVars, call, cur, calls, startVal,
                   removed, acq, rel, after, docs, sweepVars, batchVars, retryVars, clientVars, endVars, repairVars, rateVars, startVars>>

\* ------------------------------------------------- Neo4jManager write functions
\* Blocking calls: no coroutine runs between their start and their end. _run_transaction
\* retries ServiceUnavailable and raises when every attempt failed
\* (failures = Neo4jMaxRetries); a constraint violation raises at once.
TransactionFails(failures) == failures >= Neo4jMaxRetries

\* the transaction succeeds at once, or fails on every attempt
GraphAttempts == {0, Neo4jMaxRetries}

\* neo4j.create_insight_node(i, props), while the store holds fewer than MaxNodes nodes
CreateInsight(i, title, tags, failures) ==
    /\ Len(nodes) < MaxNodes
    /\ nodes' = IF TransactionFails(failures) \/ ConstraintViolated(nodes, i) THEN nodes
                ELSE CreateInsightNode(nodes, i, Props(title, OwnerOf(i), tags))
    /\ UNCHANGED <<kvVars, edges, detached, uniqueId, syncVars, docs, sweepVars, batchVars, retryVars, clientVars, endVars, repairVars, rateVars, startVars>>

\* neo4j.update_insight_node(i, props)
UpdateInsight(i, title, tags, failures) ==
    /\ nodes' = IF TransactionFails(failures) THEN nodes
                ELSE UpdateInsightNode(nodes, i, Props(title, OwnerOf(i), tags))
    /\ UNCHANGED <<kvVars, edges, detached, uniqueId, syncVars, docs, sweepVars, batchVars, retryVars, clientVars, endVars, repairVars, rateVars, startVars>>

\* neo4j.delete_insight_node(i)
DeleteInsight(i, failures) ==
    /\ nodes' = IF TransactionFails(failures) THEN nodes ELSE DeleteInsightNode(nodes, i)
    /\ edges' = IF TransactionFails(failures) THEN edges ELSE DetachEdges(edges, i)
    /\ detached' = IF TransactionFails(failures) THEN detached ELSE EdgesOf(edges, i)
    /\ UNCHANGED <<kvVars, uniqueId, syncVars, docs, sweepVars, batchVars, retryVars, clientVars, endVars, repairVars, rateVars, startVars>>

\* the edges after MATCH (src:Insight {id: a}) MATCH (tgt:Insight {id: b})
\* CREATE (src)-[r:RELATED_TO]->(tgt): one relationship for every pair of a node with
\* id a and a node with id b, none when a node is missing, and new ones when the
\* nodes are related already
CreateRelationshipEdges(g, e, a, b) ==
    AddParallel(e, "RELATED_TO", a, b, CountId(g, a) * CountId(g, b))

\* neo4j.create_relationship(a, b, rel_type), while the store holds MaxEdges edges at
\* most after it
CreateRelationship(a, b, failures) ==
    /\ Cardinality(edges) + CountId(nodes, a) * CountId(nodes, b) <= MaxEdges
    /\ edges' = IF TransactionFails(failures) THEN edges
                ELSE CreateRelationshipEdges(nodes, edges, a, b)
    /\ UNCHANGED <<kvVars, nodes, detached, uniqueId, syncVars, docs, sweepVars, batchVars, retryVars, clientVars, endVars, repairVars, rateVars, startVars>>

\* neo4j.delete_relationship(relationship_id): MATCH ()-[r]-() WHERE id(r) = $rel_id
\* DELETE r, for the id of the relationship x: the relationships parallel to x stay
DeleteRelationship(x, failures) ==
    /\ edges' = IF TransactionFails(failures) THEN edges ELSE edges \ {x}
    /\ UNCHANGED <<kvVars, nodes, detached, uniqueId, syncVars, docs, sweepVars, batchVars, retryVars, clientVars, endVars, repairVars, rateVars, startVars>>

\* the label of the node a relationship ends at; it starts from an Insight node
ToLabel(x) == IF x[1] = "HAS_TAG" THEN "Tag" ELSE "Insight"

\* MATCH (a{from_part})-[r{rel_part}]->(b{to_part}) with no property condition: a part
\* is empty when its argument is None ("" here)
MatchesPattern(x, from_label, to_label, relationship_type) ==
    /\ from_label = "" \/ from_label = "Insight"
    /\ to_label = "" \/ to_label = ToLabel(x)
    /\ relationship_type = "" \/ relationship_type = x[1]

\* Neo4jClient.delete_relationship(from_label, to_label=.., relationship_type=..):
\* DELETE r for every relationship matching the pattern; nothing is deleted when the
\* query failed. DELETE /relationships/{relationship_id} calls it with the path
\* parameter as its first argument, from_label, and the other arguments left None.
ClientDeleteRelationship(from_label, to_label, relationship_type, failed) ==
    /\ edges' = IF failed THEN edges
                ELSE {x \in edges : ~MatchesPattern(x, from_label, to_label, relationship_type)}
    /\ UNCHANGED <<kvVars, nodes, detached, uniqueId, syncVars, docs, sweepVars, batchVars, retryVars, clientVars, endVars, repairVars, rateVars, startVars>>

\* what the path parameter of DELETE /relationships/{relationship_id} can be: a node
\* label, or the id of a relationship, which is the label of no node
RelationshipIds == {"Insight", "Tag", "1"}

\* ------------------------------------------------- DatabaseManager.sync_insight
\* what sync_insight gets from its acquire_lock call. The call, line 109, passes the
\* lock name only, and acquire_lock takes lock_name, lock_value and ttl: Python raises
\* TypeError before a command is sent to the store.
SyncAcquire == "raised"

\* how sync_insight ends then: its finally block reads lock_value, which was never
\* bound, and the UnboundLocalError is what the caller gets
SyncOutcome == "raised"

\* a sync_insight that takes its acquire for successful whatever the key holds, and is
\* suspended at the first cache command of its body
SyncInsightUnserialized(p, i, op, title, tags) ==
    /\ Begun(p, Call("sync", i, 1, op, title, tags), MaxSyncs)
    /\ acq' = [acq EXCEPT ![p] = "true"]
    /\ pc' = [pc EXCEPT ![p] = "cache"]
    /\ todo' = [todo EXCEPT ![p] = <<Command("del", "insight", i, {CacheKey("insight", i)})>>]
    /\ UNCHANGED <<kvVars, graphVars, res, docs, sweepVars, batchVars, retryVars, clientVars, endVars, repairVars, rateVars, startVars>>

\* a sync_insight whose create reaches neo4j.create_insight_node and returns
SyncInsightCreates(p, i, op, title, tags) ==
    /\ Begun(p, Call("sync", i, 1, op, title, tags), MaxSyncs)
    /\ acq' = [acq EXCEPT ![p] = "true"]
    /\ nodes' = IF op # "create" \/ ConstraintViolated(nodes, i) THEN nodes
                ELSE CreateInsightNode(nodes, i, Props(title, OwnerOf(i), tags))
    /\ Finish(p, "returned")
    /\ UNCHANGED <<kvVars, edges, detached, uniqueId, todo, docs, sweepVars, batchVars, retryVars, clientVars, endVars, repairVars, rateVars, startVars>>

\* a sync_insight that sets the lock key with its token and raises without a release
SyncInsightKeepsKey(p, i, op, title, tags) ==
    /\ Begun(p, Call("sync", i, 1, op, title, tags), MaxSyncs)
    /\ lock' = SetNxEx(lock, i, Token(p), MaxTtl)[1]
    /\ acq' = [acq EXCEPT ![p] = BoolStr(SetNxEx(lock, i, Token(p), MaxTtl)[2])]
    /\ Finish(p, "raised")
    /\ UNCHANGED <<cache, graphVars, todo, docs, sweepVars, batchVars, retryVars, clientVars, endVars, repairVars, rateVars, startVars>>

\* await db_manager.sync_insight(insight, operation): nothing of the body runs,
\* whatever the operation, and no command reaches a store
SyncInsight(p, i, op, title, tags) ==
    /\ Begun(p, Call("sync", i, 1, op, title, tags), MaxSyncs)
    /\ acq' = [acq EXCEPT ![p] = SyncAcquire]
    /\ Finish(p, SyncOutcome)
    /\ UNCHANGED <<kvVars, graphVars, todo, docs, sweepVars, batchVars, retryVars, clientVars, endVars, repairVars, rateVars, startVars>>

Next ==
    \/ \E p \in Procs, i \in Ids, op \in Ops, title \in Titles, tags \in TagLists :
          SyncInsight(p, i, op, title, tags)
    \/ \E p \in Procs, n \in Ids, t \in Ttls : StartAcquire(p, n, t)
    \/ \E p \in Procs, n \in Ids : StartRelease(p, n)
    \/ \E p \in Procs, failures \in Attempts : AcquireLock(p, failures)
    \/ \E p \in Procs, failures \in Attempts : ReleaseGet(p, failures)
    \/ \E p \in Procs, failures \in Attempts : ReleaseDelete(p, failures)
    \/ Tick
    \/ \E p \in Procs, k \in AllCacheKeys : SetCache(p, k[1], k[2])
    \/ \E p \in Procs, k \in AllCacheKeys : DeleteCache(p, k[1], k[2])
    \/ \E p \in Procs, k \in AllCacheKeys : InvalidatePattern(p, k[1], k[2])
    \/ \E p \in Procs, failures \in Attempts : CacheCommand(p, failures)

Spec == Init /\ [][Next]_vars

\* ------------------ sync_insight(.., "delete") on a graph the Neo4jManager calls write
DeleteInit ==
    /\ lock = [n \in Ids |-> Absent]
    /\ cache = AllCacheKeys
    /\ uniqueId \in BOOLEAN
    /\ GraphContents
    /\ detached = {}
    /\ SyncIdle
    /\ docs = [i \in Entities |-> <<>>]
    /\ SweepIdle
    /\ BatchIdle
    /\ RetryIdle
    /\ ClientIdle
    /\ EndIdle
    /\ RepairIdle
    /\ RateIdle
    /\ StartIdle

DeleteNext ==
    \/ \E p \in Requesters, i \in Ids : SyncInsight(p, i, "delete", 1, <<>>)
    \/ \E i \in Ids, title \in Titles, tags \in TagLists, failures \in GraphAttempts :
          CreateInsight(i, title, tags, failures)
    \/ \E i \in Ids, title \in Titles, tags \in TagLists, failures \in GraphAttempts :
          UpdateInsight(i, title, tags, failures)
    \/ \E i \in Ids, failures \in GraphAttempts : DeleteInsight(i, failures)
    \/ \E a, b \in Entities, failures \in GraphAttempts : CreateRelationship(a, b, failures)
    \/ \E x \in edges, failures \in GraphAttempts : DeleteRelationship(x, failures)
    \/ \E relationship_id \in RelationshipIds, failed \in BOOLEAN :
          ClientDeleteRelationship(relationship_id, "", "", failed)

DeleteSpec == DeleteInit /\ [][DeleteNext]_vars

\* ------------------------------- DatabaseConsistencyManager.perform_full_consistency_check
\* ids of the documents in d
DocIds(d) == {i \in DOMAIN d : d[i] # <<>>}

\* ids returned by MATCH (i:Insight) RETURN i.id AS id, as a set
GraphIds(g) == {NodeId(g[k]) : k \in DOMAIN g}

\* a difference that takes every document for missing
MissingAll(mongo_ids, ids) == mongo_ids

\* missing_in_neo4j = mongo_ids - neo4j_ids
MissingInNeo4j(mongo_ids, ids) == mongo_ids \ ids

\* orphaned_in_neo4j = neo4j_ids - mongo_ids
OrphanedInNeo4j(mongo_ids, ids) == ids \ mongo_ids

\* the counts of the last log line: len(missing_in_neo4j), len(orphaned_in_neo4j)
LogLine(mongo_ids, ids) ==
    <<Cardinality(MissingInNeo4j(mongo_ids, ids)), Cardinality(OrphanedInNeo4j(mongo_ids, ids))>>

\* the value the sweep returns: True or False, the counts are not part of it
SweepResult(ok, counts) == <<ok>>

\* a sweep without the except clause: the error of the store call reaches the caller,
\* the sweep returns no value
SweepRaises ==
    /\ spc' = "done"
    /\ sret' = <<>>
    /\ UNCHANGED <<missing, orphaned, tagging, logged>>

\* the except clause: the sweep logs the error and returns False
SweepFails ==
    /\ spc' = "done"
    /\ sret' = SweepResult(FALSE, <<>>)
    /\ UNCHANGED <<missing, orphaned, tagging, logged>>

\* the sweep, having read the node ids `ids`, goes on with ids m to create and ids o to
\* remove, once the tags t are added: the next round trip of its loops or, when none
\* is left, the log line and `return True`
SweepGoes(ids, m, o, t) ==
    /\ missing' = m
    /\ orphaned' = o
    /\ tagging' = t
    /\ IF t # <<>> THEN spc' = "tags" /\ UNCHANGED <<sret, logged>>
       ELSE IF m # {} THEN spc' = "create" /\ UNCHANGED <<sret, logged>>
       ELSE IF o # {} THEN spc' = "remove" /\ UNCHANGED <<sret, logged>>
       ELSE /\ spc' = "done"
            /\ logged' = LogLine(DocIds(mongo_insights), ids)
            /\ sret' = SweepResult(TRUE, logged')

\* await consistency_manager.perform_full_consistency_check()
StartSweep ==
    /\ spc \in {"idle", "done"}
    /\ sweeps < MaxSweeps
    /\ sweeps' = sweeps + 1
    /\ spc' = "read_docs"
    /\ prior' = sret
    /\ sret' = <<>>
    /\ logged' = <<>>
    /\ mongo_insights' = [i \in Entities |-> <<>>]
    /\ neo4j_ids' = {}
    /\ missing' = {}
    /\ orphaned' = {}
    /\ tagging' = <<>>
    /\ repairs' = 0
    /\ docs0' = docs
    /\ ids0' = GraphIds(nodes)
    /\ sync0' = <<pc, calls>>
    /\ UNCHANGED <<kvVars, graphVars, syncVars, docs, batchVars, retryVars, clientVars, endVars, repairVars, rateVars, startVars>>

\* 1. async for insight in mongodb.db.insights.find({}): the documents are read at once
ReadDocs(fails) ==
    /\ spc = "read_docs"
    /\ IF fails
       THEN SweepFails /\ UNCHANGED mongo_insights
       ELSE /\ mongo_insights' = docs
            /\ spc' = "read_graph"
            /\ UNCHANGED <<missing, orphaned, tagging, sret, logged>>
    /\ UNCHANGED <<kvVars, graphVars, syncVars, docs, batchVars, retryVars, clientVars, endVars, repairVars, rateVars, neo4j_ids, prior, sweeps,
                   repairs, docs0, ids0, sync0, startVars>>

\* 2. MATCH (i:Insight) RETURN i.id AS id, and the two set differences of 3. and 4.,
\* which depend on the two locals only
ReadGraph(fails) ==
    /\ spc = "read_graph"
    /\ IF fails
       THEN SweepFails /\ UNCHANGED neo4j_ids
       ELSE /\ neo4j_ids' = GraphIds(nodes)
            /\ SweepGoes(GraphIds(nodes),
                         MissingInNeo4j(DocIds(mongo_insights), GraphIds(nodes)),
                         OrphanedInNeo4j(DocIds(mongo_insights), GraphIds(nodes)), <<>>)
    /\ UNCHANGED <<kvVars, graphVars, syncVars, docs, batchVars, retryVars, clientVars, endVars, repairVars, rateVars, mongo_insights, prior, sweeps,
                   repairs, docs0, ids0, sync0, startVars>>

\* _create_insight_in_neo4j after its CREATE: `if "tags" in mongo_insight and
\* mongo_insight["tags"]:` `for tag in mongo_insight["tags"]:`, the tags to add to the
\* node of document d, <<>> when there is none
TagsToAdd(i, d) == IF d[2] = <<>> THEN <<>> ELSE <<i, d[2]>>

\* the tags left when the first of the tags t was added
TagsLeft(t) == IF Tail(t[2]) = <<>> THEN <<>> ELSE <<t[1], Tail(t[2])>>

\* 3. _create_insight_in_neo4j, first round trip: CREATE (i:Insight {id, title, user_id,
\* created_at}) from the document read in 1.; the tags follow, if it has any
CreateNode(i, fails) ==
    /\ spc = "create"
    /\ i \in missing
    /\ IF fails \/ ConstraintViolated(nodes, i)
       THEN SweepFails /\ UNCHANGED <<nodes, repairs>>
       ELSE /\ nodes' = Append(nodes, Node(i, mongo_insights[i][1], OwnerOf(i), <<>>))
            /\ repairs' = repairs + 1
            /\ SweepGoes(neo4j_ids, missing \ {i}, orphaned, TagsToAdd(i, mongo_insights[i]))
    /\ UNCHANGED <<kvVars, edges, detached, uniqueId, syncVars, docs, batchVars, retryVars, clientVars, endVars, repairVars, rateVars,
                   mongo_insights, neo4j_ids, prior, sweeps, docs0, ids0, sync0, startVars>>

\* the edges after MERGE (t:Tag {name: $tag}) WITH t MATCH (i:Insight {id: $id})
\* MERGE (i)-[:HAS_TAG]->(t)
MergeTag(g, e, i, tag) ==
    LET had == Cardinality(Parallel(e, "HAS_TAG", i, tag))
    IN IF CountId(g, i) > had THEN AddParallel(e, "HAS_TAG", i, tag, CountId(g, i) - had) ELSE e

\* 3. _create_insight_in_neo4j, the round trip of one tag of the loop
TagNode(fails) ==
    /\ spc = "tags"
    /\ IF fails
       THEN SweepFails /\ UNCHANGED <<edges, repairs>>
       ELSE /\ edges' = MergeTag(nodes, edges, tagging[1], Head(tagging[2]))
            /\ repairs' = repairs + 1
            /\ SweepGoes(neo4j_ids, missing, orphaned, TagsLeft(tagging))
    /\ UNCHANGED <<kvVars, nodes, detached, uniqueId, syncVars, docs, batchVars, retryVars, clientVars, endVars, repairVars, rateVars,
                   mongo_insights, neo4j_ids, prior, sweeps, docs0, ids0, sync0, startVars>>

\* 4. MATCH (i:Insight {id: $id}) DETACH DELETE i for an id of orphaned_in_neo4j
RemoveNode(i, fails) ==
    /\ spc = "remove"
    /\ i \in orphaned
    /\ IF fails
       THEN SweepFails /\ UNCHANGED <<nodes, edges, detached, repairs>>
       ELSE /\ nodes' = DeleteInsightNode(nodes, i)
            /\ edges' = DetachEdges(edges, i)
            /\ detached' = EdgesOf(edges, i)
            /\ repairs' = repairs + 1
            /\ SweepGoes(neo4j_ids, missing, orphaned \ {i}, <<>>)
    /\ UNCHANGED <<kvVars, uniqueId, syncVars, docs, batchVars, retryVars, clientVars, endVars, repairVars, rateVars, mongo_insights, neo4j_ids,
                   prior, sweeps, docs0, ids0, sync0, startVars>>

\* a document of the insights collection at the start: none, or one with title 1 and
\* no tag or two tags
DocValues == {<<>>, <<1, <<>>>>, <<1, <<1, 2>>>>}

\* the sweep on stores nobody else writes
ReconInit ==
    /\ lock = [n \in Ids |-> Absent]
    /\ cache = AllCacheKeys
    /\ uniqueId \in BOOLEAN
    /\ GraphContents
    /\ detached = {}
    /\ SyncIdle
    /\ docs \in [Entities -> DocValues]
    /\ SweepIdle
    /\ BatchIdle
    /\ RetryIdle
    /\ ClientIdle
    /\ EndIdle
    /\ RepairIdle
    /\ RateIdle
    /\ StartIdle

ReconNext ==
    \/ StartSweep
    \/ \E fails \in BOOLEAN : ReadDocs(fails)
    \/ \E fails \in BOOLEAN : ReadGraph(fails)
    \/ \E i \in Entities, fails \in BOOLEAN : CreateNode(i, fails)
    \/ \E fails \in BOOLEAN : TagNode(fails)
    \/ \E i \in Entities, fails \in BOOLEAN : RemoveNode(i, fails)

ReconSpec == ReconInit /\ [][ReconNext]_vars

\* ------------------------------------- web requests and sync_insight while the sweep runs
\* the projection of the document d of id i: the node create_insight_node makes with
\* the neo4j_props of sync_insight
Projection(i, d) == Node(i, d[1], OwnerOf(i), <<d[2]>>)

\* the graph store in which every document of d is projected once, and nothing else
RECURSIVE Projected(_, _)
Projected(d, i) ==
    IF i = 0 THEN <<>>
    ELSE Projected(d, i - 1) \o (IF d[i] = <<>> THEN <<>> ELSE <<Projection(i, d[i])>>)

\* the insights collection after the endpoint's round trip. insert_one stores the
\* document under the ObjectId the driver gives it. update_one and delete_one filter on
\* {"_id": insight_id}, insight_id the string of the path: a string equals no ObjectId,
\* so they match no document and the collection stays as it is
WriteDoc(d, i, op, title, tags) ==
    IF op = "create" THEN [d EXCEPT ![i] = <<title, tags>>] ELSE d

\* create_insight, update_insight, delete_insight, for the request p. A create inserts
\* the document under a fresh id i (and is answered 500, its find_one on the string of
\* the new id finding nothing); an update or a delete is answered 404 ("notfound")
DocWrite(p, i, op, title, tags) ==
    /\ pc[p] \in {"idle", "done"}
    /\ calls[p] < MaxSyncs
    /\ (op = "create") => (docs[i] = <<>>)
    /\ docs' = WriteDoc(docs, i, op, title, tags)
    /\ call' = [call EXCEPT ![p] = IF op = "create"
                                    THEN Call("request", i, 1, op, title, tags)
                                    ELSE Call("notfound", i, 1, op, 1, <<>>)]
    /\ UNCHANGED <<kvVars, graphVars, pc, cur, todo, res, calls, startVal,
                   removed, acq, rel, exhausted, after, sweepVars, batchVars, retryVars, clientVars, endVars, repairVars, rateVars, startVars>>

\* the request p, having written its document, calls sync_insight for it
SyncAfterWrite(p) ==
    /\ Kind(p) = "request"
    /\ SyncInsight(p, IdOf(p), OpOf(p), TitleOf(p), TagsOf(p))

\* the sweep and live traffic: requests that create a document and call
\* sync_insight(.., "create") for it, on stores that may differ. An ObjectId a request
\* is about to generate is the id of no document and of no node.
LiveInit ==
    /\ lock = [n \in Ids |-> Absent]
    /\ cache = AllCacheKeys
    /\ uniqueId \in BOOLEAN
    /\ docs \in [Entities -> DocValues]
    /\ \E cnt \in [Entities -> 0..1] :
          /\ \A i \in Ids : docs[i] = <<>> => cnt[i] = 0
          /\ nodes = NodesOf(cnt, NumEntities)
    /\ edges = {}
    /\ detached = {}
    /\ SyncIdle
    /\ SweepIdle
    /\ BatchIdle
    /\ RetryIdle
    /\ ClientIdle
    /\ EndIdle
    /\ RepairIdle
    /\ RateIdle
    /\ StartIdle

LiveNext ==
    \/ \E p \in Requesters, i \in Ids, title \in Titles, tags \in TagLists :
          DocWrite(p, i, "create", title, tags)
    \/ \E p \in Requesters : SyncAfterWrite(p)
    \/ StartSweep
    \/ \E fails \in BOOLEAN : ReadDocs(fails)
    \/ \E fails \in BOOLEAN : ReadGraph(fails)
    \/ \E i \in Entities, fails \in BOOLEAN : CreateNode(i, fails)
    \/ \E fails \in BOOLEAN : TagNode(fails)
    \/ \E i \in Entities, fails \in BOOLEAN : RemoveNode(i, fails)

LiveSpec == LiveInit /\ [][LiveNext]_vars

\* ------------------------- DatabaseManager.verify_database_consistency, at startup
\* the nodes after the loop of _process_consistency_check went through the documents
\* of snap with the ids 1..k: MATCH (i:Insight {id: $id}) RETURN i.id, and
\* neo4j.create_insight_node for a document that has no node
RECURSIVE ProcessedUpTo(_, _, _)
ProcessedUpTo(g, snap, k) ==
    IF k = 0 THEN g
    ELSE LET h == ProcessedUpTo(g, snap, k - 1)
         IN IF snap[k] # <<>> /\ CountId(h, k) = 0
            THEN CreateInsightNode(h, k, Props(snap[k][1], OwnerOf(k), snap[k][2]))
            ELSE h

\* await db_manager.verify_database_consistency(): mongodb.read_many("insights", {},
\* limit=1000), then asyncio.create_task(self._process_consistency_check(mongo_insights));
\* a read that raises ends it
VerifyDatabaseConsistency(fails) ==
    /\ vpc = "idle"
    /\ IF fails
       THEN vpc' = "done" /\ UNCHANGED vsnap
       ELSE vpc' = "task" /\ vsnap' = docs
    /\ UNCHANGED <<kvVars, graphVars, syncVars, docs, sweepVars, batchVars, retryVars, clientVars, endVars, repairVars, rateVars>>

\* the task _process_consistency_check(mongo_insights). It takes no lock and never
\* awaits: once the event loop gets to it, it runs through every document read
\* (stop = NumEntities + 1), or up to the document `stop`, at which a store call
\* raises, which ends the task.
ProcessConsistencyCheck(stop) ==
    /\ vpc = "task"
    /\ stop <= NumEntities => vsnap[stop] # <<>>
    /\ nodes' = ProcessedUpTo(nodes, vsnap, stop - 1)
    /\ vpc' = "done"
    /\ UNCHANGED <<kvVars, edges, detached, uniqueId, syncVars, docs, sweepVars, batchVars, retryVars, clientVars, endVars, repairVars, rateVars, vsnap>>

\* stores that agree: every document is projected once
RaceInit ==
    /\ lock = [n \in Ids |-> Absent]
    /\ cache = AllCacheKeys
    /\ uniqueId \in BOOLEAN
    /\ docs \in [Entities -> DocValues]
    /\ nodes = Projected(docs, NumEntities)
    /\ edges = {}
    /\ detached = {}
    /\ SyncIdle
    /\ SweepIdle
    /\ BatchIdle
    /\ RetryIdle
    /\ ClientIdle
    /\ EndIdle
    /\ RepairIdle
    /\ RateIdle
    /\ StartIdle

RaceNext ==
    \/ \E p \in Requesters, i \in Ids, op \in Ops, title \in Titles, tags \in TagLists :
          DocWrite(p, i, op, title, tags)
    \/ \E p \in Requesters : SyncAfterWrite(p)
    \/ \E fails \in BOOLEAN : VerifyDatabaseConsistency(fails)
    \/ \E stop \in 1..(NumEntities + 1) : ProcessConsistencyCheck(stop)
    \/ StartSweep
    \/ \E fails \in BOOLEAN : ReadDocs(fails)
    \/ \E fails \in BOOLEAN : ReadGraph(fails)
    \/ \E i \in Entities, fails \in BOOLEAN : CreateNode(i, fails)
    \/ \E fails \in BOOLEAN : TagNode(fails)
    \/ \E i \in Entities, fails \in BOOLEAN : RemoveNode(i, fails)

RaceSpec == RaceInit /\ [][RaceNext]_vars

\* --------------------------------------- DatabaseConsistencyManager.ensure_transaction
\* an operation of the batch: whether awaiting it raises, whether its result is a tuple
\* of length 2, and the two members of the tuple: "none" (None), "fn" (a callable) or
\* "val" (a truthy value that is not callable)
Operation(raises, pair, mongo_op, neo4j_op) == <<raises, pair, mongo_op, neo4j_op>>

Members == {"none", "fn", "val"}

Operations ==
    {Operation(TRUE, FALSE, "none", "none"), Operation(FALSE, FALSE, "none", "none")}
        \cup {Operation(FALSE, TRUE, m, n) : m \in Members, n \in Members}

\* the batches of at most MaxSteps operations
Batches == UNION {[1..n -> Operations] : n \in 0..MaxSteps}

\* a recording that appends every member twice
CollectTwice(list, k, pair, member) ==
    IF pair /\ member # "none" THEN list \o <<<<k, member>>, <<k, member>>>> ELSE list

\* `if mongo_op: mongodb_operations.append(mongo_op)`, and the same for neo4j_op: the
\* member is recorded with the step k that returned it
Collect(list, k, pair, member) ==
    IF pair /\ member # "none" THEN Append(list, <<k, member>>) ELSE list

\* a loop that catches the exception of an operation and goes on with the next one
ResumeAlways(k, raised) == <<"run", k + 1>>

\* where ensure_transaction goes after operation k: to the next operation, or to the
\* except clause when the operation raised
Resume(k, raised) == IF raised THEN <<"enter_tx", k>> ELSE <<"run", k + 1>>

\* a traversal in the order of recording
Forward(l) == l

\* reversed(l)
Reversed(l) == [j \in 1..Len(l) |-> l[Len(l) + 1 - j]]

\* the calls a rollback loop over l makes, in order: `if callable(rollback_op)`
Pending(l) == SelectSeq(Reversed(l), LAMBDA c : c[2] = "fn")

\* an exception leaves ensure_transaction
BatchRaises ==
    /\ bpc' = "done"
    /\ bret' = "raised"
    /\ UNCHANGED step

\* the rollback goes on after the graph compensations: with the first document
\* compensation or, when there is none, with `return False`
ToMongoRollback ==
    IF Pending(mongodb_operations) # <<>>
    THEN bpc' = "undo_m" /\ step' = 1 /\ UNCHANGED bret
    ELSE bpc' = "done" /\ bret' = "false" /\ UNCHANGED step

\* await consistency_manager.ensure_transaction(ops)
StartBatch(ops) ==
    /\ bpc = "idle"
    /\ operations' = ops
    /\ mongodb_operations' = <<>>
    /\ neo4j_operations' = <<>>
    /\ blog' = <<>>
    /\ IF ops = <<>>
       THEN bpc' = "done" /\ bret' = "true" /\ UNCHANGED step
       ELSE bpc' = "run" /\ step' = 1 /\ UNCHANGED bret
    /\ UNCHANGED <<kvVars, graphVars, syncVars, docs, sweepVars, retryVars, clientVars, endVars, repairVars, rateVars, startVars>>

\* result = await operation(), and the recording of its compensations; after the last
\* operation, `return True`
RunStep ==
    /\ bpc = "run"
    /\ step <= Len(operations)
    /\ LET op == operations[step]
           r == Resume(step, op[1])
       IN /\ blog' = Append(blog, <<"step", step>>)
          /\ mongodb_operations' =
                IF op[1] THEN mongodb_operations
                ELSE Collect(mongodb_operations, step, op[2], op[3])
          /\ neo4j_operations' =
                IF op[1] THEN neo4j_operations
                ELSE Collect(neo4j_operations, step, op[2], op[4])
          /\ IF r[1] = "run" /\ r[2] > Len(operations)
             THEN bpc' = "done" /\ bret' = "true" /\ UNCHANGED step
             ELSE bpc' = r[1] /\ step' = r[2] /\ UNCHANGED bret
    /\ UNCHANGED <<kvVars, graphVars, syncVars, docs, sweepVars, retryVars, clientVars, endVars, repairVars, rateVars, operations, startVars>>

\* except Exception: async with neo4j_db.transaction() as tx
EnterTx(fails) ==
    /\ bpc = "enter_tx"
    /\ IF fails THEN BatchRaises
       ELSE IF Pending(neo4j_operations) # <<>>
       THEN bpc' = "undo_n" /\ step' = 1 /\ UNCHANGED bret
       ELSE bpc' = "exit_tx" /\ UNCHANGED <<step, bret>>
    /\ UNCHANGED <<kvVars, graphVars, syncVars, docs, sweepVars, retryVars, clientVars, endVars, repairVars, rateVars, operations,
                   mongodb_operations, neo4j_operations, blog, startVars>>

\* await rollback_op(tx) for the next callable of reversed(neo4j_operations). A
\* compensation that raises leaves the async with block with its exception:
\* Neo4jTransaction.__aexit__ awaits the ROLLBACK before the exception goes on
UndoNeo4j(fails) ==
    /\ bpc = "undo_n"
    /\ blog' = Append(blog, <<"undo_n", Pending(neo4j_operations)[step][1]>>)
    /\ IF fails THEN bpc' = "rollback_tx" /\ UNCHANGED <<step, bret>>
       ELSE IF step < Len(Pending(neo4j_operations))
       THEN step' = step + 1 /\ UNCHANGED <<bpc, bret>>
       ELSE bpc' = "exit_tx" /\ UNCHANGED <<step, bret>>
    /\ UNCHANGED <<kvVars, graphVars, syncVars, docs, sweepVars, retryVars, clientVars, endVars, repairVars, rateVars, operations,
                   mongodb_operations, neo4j_operations, startVars>>

\* Neo4jTransaction.__aexit__ with the exception of a compensation: the ROLLBACK it
\* awaited is over; its error is logged and not raised, and the exception of the
\* compensation leaves ensure_transaction
RollbackTx(fails) ==
    /\ bpc = "rollback_tx"
    /\ BatchRaises
    /\ UNCHANGED <<kvVars, graphVars, syncVars, docs, sweepVars, retryVars, clientVars, endVars, repairVars, rateVars, operations,
                   mongodb_operations, neo4j_operations, blog, startVars>>

\* the end of the async with block when no compensation raised: Neo4jTransaction.__aexit__
\* awaits the COMMIT and raises its error
ExitTx(fails) ==
    /\ bpc = "exit_tx"
    /\ IF fails THEN BatchRaises ELSE ToMongoRollback
    /\ UNCHANGED <<kvVars, graphVars, syncVars, docs, sweepVars, retryVars, clientVars, endVars, repairVars, rateVars, operations,
                   mongodb_operations, neo4j_operations, blog, startVars>>

\* await rollback_op() for the next callable of reversed(mongodb_operations); after
\* the last one, `return False`
UndoMongo(fails) ==
    /\ bpc = "undo_m"
    /\ blog' = Append(blog, <<"undo_m", Pending(mongodb_operations)[step][1]>>)
    /\ IF fails THEN BatchRaises
       ELSE IF step < Len(Pending(mongodb_operations))
       THEN step' = step + 1 /\ UNCHANGED <<bpc, bret>>
       ELSE bpc' = "done" /\ bret' = "false" /\ UNCHANGED step
    /\ UNCHANGED <<kvVars, graphVars, syncVars, docs, sweepVars, retryVars, clientVars, endVars, repairVars, rateVars, operations,
                   mongodb_operations, neo4j_operations, startVars>>

BatchInit == Init /\ uniqueId = TRUE

BatchNext ==
    \/ \E ops \in Batches : StartBatch(ops)
    \/ RunStep
    \/ \E fails \in BOOLEAN : EnterTx(fails)
    \/ \E fails \in BOOLEAN : UndoNeo4j(fails)
    \/ \E fails \in BOOLEAN : RollbackTx(fails)
    \/ \E fails \in BOOLEAN : ExitTx(fails)
    \/ \E fails \in BOOLEAN : UndoMongo(fails)

BatchSpec == BatchInit /\ [][BatchNext]_vars

\* ------------------------------- _execute_with_retry and connect: the retry loops
\* the retry loops: _execute_with_retry of the three clients, connect of RedisClient and
\* of MongoDBClient
Wrappers ==
    {<<s, "execute">> : s \in Stores} \cup {<<"redis", "connect">>, <<"mongodb", "connect">>}

\* the exceptions an operation on the store can raise, by class; ValueError stands for
\* every exception that is not one of the store's driver
ErrorsOf(s) ==
    CASE s = "redis" -> {"ConnectionError", "TimeoutError", "ResponseError", "ValueError"}
      [] s = "mongodb" -> {"ConnectionFailure", "ServerSelectionTimeoutError",
                           "OperationFailure", "ValueError"}
      [] s = "neo4j" -> {"ServiceUnavailable", "TransactionError", "ClientError", "ValueError"}

\* the except clause of the loop w catches err. RedisError is the base class of
\* ResponseError; ServerSelectionTimeoutError is a ConnectionFailure
Caught(w, err) ==
    CASE w = <<"redis", "execute">> -> err \in {"ConnectionError", "TimeoutError", "ResponseError"}
      [] w = <<"redis", "connect">> -> err \in {"ConnectionError", "TimeoutError"}
      [] w = <<"mongodb", "execute">> ->
             err \in {"ConnectionFailure", "ServerSelectionTimeoutError", "OperationFailure"}
      [] w = <<"mongodb", "connect">> ->
             err \in {"ConnectionFailure", "ServerSelectionTimeoutError"}
      [] w = <<"neo4j", "execute">> -> err \in {"ServiceUnavailable", "TransactionError"}
      [] w = <<"neo4j", "connect">> -> err \in {"ServiceUnavailable", "ClientError"}

\* `if not self._client: raise ConnectionError(..)` at the head of the loop w: the
\* _execute_with_retry of RedisClient and of Neo4jClient have it
Guarded(w) == w \in {<<"redis", "execute">>, <<"neo4j", "execute">>}

\* a range with one attempt too many
AttemptRangeExtra(max) == 1..(max + 1)

\* range(1, self._max_retry_attempts + 1)
AttemptRange(max) == 1..max

\* a constant delay
WaitTimeFixed(base, attempt) == base

\* wait_time = self._retry_delay * (2 ** (attempt - 1))
WaitTime(base, attempt) == base * 2^(attempt - 1)

\* a loop that gives up without an error
OnExhaustedNone(err) == <<"returned", 0>>

\* the last attempt failed: the bare `raise` re-raises the error caught
OnExhausted(err) == <<"raised", err>>

\* the loop ends with r
RetryEnds(r) ==
    /\ rret' = r
    /\ rpc' = "done"

\* await client._execute_with_retry(operation) or await client.connect(), on a client
\* constructed with max attempts and the delay base, whose _client is set or not
StartRetry(w, client, max, base) ==
    /\ rpc = "idle"
    /\ rwrap' = w
    /\ rclient' = client
    /\ rmax' = max
    /\ rbase' = base
    /\ rlog' = <<>>
    /\ IF Guarded(w) /\ ~client
       THEN RetryEnds(<<"raised", "ConnectionError">>) /\ rattempt' = 0
       ELSE IF AttemptRange(max) = {}
       THEN RetryEnds(<<"returned", 0>>) /\ rattempt' = 0
       ELSE rpc' = "attempt" /\ rattempt' = 1 /\ UNCHANGED rret
    /\ UNCHANGED <<kvVars, graphVars, syncVars, docs, sweepVars, batchVars, clientVars, endVars, repairVars, rateVars, startVars>>

\* one turn of the loop: the operation is awaited and returns ("ok") or raises an
\* error; an error the except clause catches is followed by the sleep and the next
\* turn, or on the last turn by `raise`. The invocation of turn k returns the value k.
Attempt(outcome) ==
    /\ rpc = "attempt"
    /\ outcome \in {"ok"} \cup ErrorsOf(rwrap[1])
    /\ LET called == Append(rlog, <<"call", rattempt, outcome>>)
       IN IF outcome = "ok"
          THEN RetryEnds(<<"returned", rattempt>>) /\ rlog' = called /\ UNCHANGED rattempt
          ELSE IF ~Caught(rwrap, outcome)
          THEN RetryEnds(<<"raised", outcome>>) /\ rlog' = called /\ UNCHANGED rattempt
          ELSE IF rattempt + 1 \in AttemptRange(rmax)
          THEN /\ rlog' = Append(called, <<"sleep", WaitTime(rbase, rattempt)>>)
               /\ rattempt' = rattempt + 1
               /\ UNCHANGED <<rret, rpc>>
          ELSE RetryEnds(OnExhausted(outcome)) /\ rlog' = called /\ UNCHANGED rattempt
    /\ UNCHANGED <<kvVars, graphVars, syncVars, docs, sweepVars, batchVars, clientVars, endVars, repairVars, rateVars,
                   rwrap, rclient, rmax, rbase, startVars>>

RetryInit == Init /\ uniqueId = TRUE

RetryNext ==
    \/ \E w \in Wrappers, client \in BOOLEAN, max \in 0..MaxAttempts, base \in 1..MaxBaseDelay :
          StartRetry(w, client, max, base)
    \/ \E outcome \in {"ok"} \cup UNION {ErrorsOf(s) : s \in Stores} : Attempt(outcome)

RetrySpec == RetryInit /\ [][RetryNext]_vars

\* the event loop resumes the coroutine when the awaited operation or sleep is over
RetryLiveSpec == RetrySpec /\ WF_vars(RetryNext)

\* --------------------------------- the client singletons: init_*, get_*, close_*, startup
\* a client object: its store, whether its _client / _driver is set (None so long as
\* connect was not called, and again after close), and whether the connection it
\* holds answered the ping of connect
Client(store, set, connected) == <<store, set, connected>>
StoreOf(c) == inst[c][1]
ClientSet(c) == inst[c][2]
Connected(c) == inst[c][3]

\* the order of check_databases: mongodb, neo4j, redis
NextStore(s) ==
    CASE s = "mongodb" -> "neo4j"
      [] s = "neo4j" -> "redis"
      [] s = "redis" -> "none"

\* close() of the client suspends at `await self._client.close()`: RedisClient and
\* Neo4jClient; MongoDBClient.close calls the driver's synchronous close
ClosesAsync(s) == s \in {"redis", "neo4j"}

\* the ping of connect and the probe of check_health are `await self.run_query("RETURN 1
\* AS result")` for Neo4jClient: the round trip runs inside _execute_with_retry, a retry
\* loop of its own within the turn of the connect loop or within check_health
RunsQuery(s) == s = "neo4j"

\* a probe whose failure propagates
ProbeRaises == <<"raised">>

\* check_health: except Exception: return False
ProbeFailed == <<"returned", FALSE>>

\* the startup hook has not raised (a startup hook that raises ends the process)
NoStartup ==
    \A u \in Tasks : tcall[u][1] = "startup" => tres[u] # <<"raised">>

\* coroutine t calls a function of store s
TaskBegin(t, kind, s) ==
    /\ tpc[t] \in {"idle", "done"}
    /\ tcalls[t] < MaxOps
    /\ NoStartup
    /\ tcalls' = [tcalls EXCEPT ![t] = @ + 1]
    /\ tcall' = [tcall EXCEPT ![t] = <<kind, s>>]
    /\ tlog' = [tlog EXCEPT ![t] = <<>>]

\* <s>_client = <S>Client(..); await <s>_client.connect(): the object is constructed
\* and made the singleton, and t enters its connect loop: the first turn assigns
\* self._client and awaits the ping
Construct(t, s) ==
    /\ Len(inst) < MaxInstances
    /\ inst' = Append(inst, Client(s, TRUE, FALSE))
    /\ singleton' = [singleton EXCEPT ![s] = Len(inst) + 1]
    /\ tinst' = [tinst EXCEPT ![t] = Len(inst) + 1]
    /\ tatt' = [tatt EXCEPT ![t] = 1]
    /\ tinner' = [tinner EXCEPT ![t] = IF RunsQuery(s) THEN 1 ELSE 0]
    /\ tpc' = [tpc EXCEPT ![t] = "ping"]
    /\ tres' = [tres EXCEPT ![t] = <<>>]

\* t's call ends with r
TaskEnds(t, r) ==
    /\ tpc' = [tpc EXCEPT ![t] = "done"]
    /\ tres' = [tres EXCEPT ![t] = r]

\* init_<s>(): `if <s>_client is None:` construct and connect; `return <s>_client`
StartInit(t, s) ==
    /\ TaskBegin(t, "init", s)
    /\ IF singleton[s] = 0
       THEN Construct(t, s)
       ELSE /\ TaskEnds(t, <<"returned", singleton[s]>>)
            /\ UNCHANGED <<singleton, inst, tinst, tatt, tinner>>
    /\ UNCHANGED <<kvVars, graphVars, syncVars, docs, sweepVars, batchVars, retryVars, endVars, repairVars, rateVars, startVars>>

\* a hook that logs the error of connect_to_mongodb and returns
StartupDegraded(t) ==
    /\ \A u \in Tasks : tcalls[u] = 0
    /\ tpc[t] = "idle"
    /\ tcalls' = [tcalls EXCEPT ![t] = @ + 1]
    /\ tcall' = [tcall EXCEPT ![t] = <<"startup", "mongodb">>]
    /\ tlog' = [tlog EXCEPT ![t] = <<>>]
    /\ TaskEnds(t, <<"returned", 0>>)
    /\ UNCHANGED <<singleton, inst, tinst, tatt, tinner>>
    /\ UNCHANGED <<kvVars, graphVars, syncVars, docs, sweepVars, batchVars, retryVars, endVars, repairVars, rateVars, startVars>>

\* startup_db_clients, at the start of the process: await connect_to_mongodb(), whose
\* argument `str(settings.MONGODB_URL)` raises AttributeError, class Settings declaring
\* no MONGODB_URL (nor MONGODB_DB_NAME, NEO4J_URL, NEO4J_USER, NEO4J_PASSWORD, REDIS_URL):
\* init_mongodb is not called, the except clause logs and re-raises, and the hook raises
\* with no client constructed and no round trip awaited
Startup(t) ==
    /\ \A u \in Tasks : tcalls[u] = 0
    /\ tpc[t] = "idle"
    /\ tcalls' = [tcalls EXCEPT ![t] = @ + 1]
    /\ tcall' = [tcall EXCEPT ![t] = <<"startup", "mongodb">>]
    /\ tlog' = [tlog EXCEPT ![t] = <<>>]
    /\ TaskEnds(t, <<"raised">>)
    /\ UNCHANGED <<singleton, inst, tinst, tatt, tinner>>
    /\ UNCHANGED <<kvVars, graphVars, syncVars, docs, sweepVars, batchVars, retryVars, endVars, repairVars, rateVars, startVars>>

\* the init_<s> of t ended: connect returned (ok) and init_<s> returns the singleton, or
\* connect raised and init_<s> raises
InitEnds(t, s, ok) ==
    /\ TaskEnds(t, IF ok THEN <<"returned", singleton[s]>> ELSE <<"raised">>)
    /\ UNCHANGED tcall

\* `self._db = self._client[self._db_name]` after the ping: MongoDBClient.connect
UsesClientAfterPing(s) == s = "mongodb"

\* the ping of the connect loop of the client t constructed is over. It answered: connect
\* returns (for mongodb, after reading self._client once more, which raises when a close
\* has unset it); or it raised. An error the loop of run_query catches is followed by
\* its sleep and its next round trip, or on its last turn leaves run_query; an error
\* that reaches the connect loop is followed, when its except clause catches it, by the
\* sleep before the next turn, or by `raise` on the last turn
Ping(t, outcome) ==
    /\ tpc[t] = "ping"
    /\ LET c == tinst[t]
           s == StoreOf(c)
           pinged == Append(tlog[t], <<"ping", outcome>>)
       IN /\ outcome \in {"ok"} \cup ErrorsOf(s)
          /\ IF outcome = "ok"
             THEN /\ inst' = [inst EXCEPT ![c] = Client(s, ClientSet(c), ClientSet(c))]
                  /\ tlog' = [tlog EXCEPT ![t] = pinged]
                  /\ tinner' = [tinner EXCEPT ![t] = 0]
                  /\ InitEnds(t, s, UsesClientAfterPing(s) => ClientSet(c))
             ELSE IF RunsQuery(s) /\ Caught(<<s, "execute">>, outcome)
                     /\ tinner[t] + 1 \in AttemptRange(MaxRetryAttempts)
             THEN /\ tlog' = [tlog EXCEPT ![t] =
                                 Append(pinged, <<"sleep", WaitTime(1, tinner[t])>>)]
                  /\ tpc' = [tpc EXCEPT ![t] = "sleep"]
                  /\ UNCHANGED <<inst, tres, tcall, tinner>>
             ELSE IF Caught(<<s, "connect">>, outcome)
                     /\ tatt[t] + 1 \in AttemptRange(MaxRetryAttempts)
             THEN /\ tlog' = [tlog EXCEPT ![t] =
                                 Append(pinged, <<"sleep", WaitTime(1, tatt[t])>>)]
                  /\ tpc' = [tpc EXCEPT ![t] = "sleep"]
                  /\ tinner' = [tinner EXCEPT ![t] = 0]
                  /\ UNCHANGED <<inst, tres, tcall>>
             ELSE /\ tlog' = [tlog EXCEPT ![t] = pinged]
                  /\ tinner' = [tinner EXCEPT ![t] = 0]
                  /\ InitEnds(t, s, FALSE)
                  /\ UNCHANGED inst
    /\ UNCHANGED <<kvVars, graphVars, syncVars, docs, sweepVars, batchVars, retryVars, endVars, repairVars, rateVars,
                   singleton, tinst, tatt, tcalls, startVars>>

\* "healthy" if all(db_status.values()) else "degraded"
Status(db_status) ==
    IF \A s \in Stores : db_status[s] THEN "healthy" ELSE "degraded"

\* check_databases, except clause: {"mongodb": False, "neo4j": False, "redis": False}
AllFalse == [s \in Stores |-> FALSE]

\* check_databases from the check of store s on, with the clients ref: check_health
\* returns False at once for a client whose _client is unset; the result is the first
\* store whose check awaits its probe ("none" when no check is left) and db_status
RECURSIVE Checks(_, _, _)
Checks(ref, s, db_status) ==
    IF s = "none" THEN <<"none", db_status>>
    ELSE IF ClientSet(ref[s]) THEN <<s, db_status>>
    ELSE Checks(ref, NextStore(s), [db_status EXCEPT ![s] = FALSE])

\* app/main.py binds no name datetime: it imports FastAPI, Request, CORSMiddleware,
\* JSONResponse and uuid
DatetimeBound == FALSE

\* health_check builds the dict it returns: "status" first, then "timestamp", whose
\* datetime.utcnow() raises NameError; logging_middleware catches the error and answers
\* 500 with the detail "Erro interno do servidor"
Respond(t, db_status) ==
    /\ estatus' = [estatus EXCEPT ![t] = db_status]
    /\ TaskEnds(t, IF DatetimeBound THEN <<"returned", 200, Status(db_status)>>
                   ELSE <<"returned", 500, "Erro interno do servidor">>)

\* check_databases of the request of t goes on after the check_health of store s
\* returned ok: the entry of s, then the checks of the stores after s
EndpointGoes(t, s, ok) ==
    LET c == Checks(eref[t], NextStore(s), [estatus[t] EXCEPT ![s] = ok])
    IN IF c[1] = "none"
       THEN /\ Respond(t, c[2])
            /\ tinner' = [tinner EXCEPT ![t] = 0]
            /\ UNCHANGED tcall
       ELSE /\ estatus' = [estatus EXCEPT ![t] = c[2]]
            /\ tcall' = [tcall EXCEPT ![t] = <<"endpoint", c[1]>>]
            /\ tpc' = [tpc EXCEPT ![t] = "eprobe"]
            /\ tinner' = [tinner EXCEPT ![t] = IF RunsQuery(c[1]) THEN 1 ELSE 0]
            /\ UNCHANGED tres

\* a sleep of t is over. The sleep of the connect loop: the next turn assigns
\* self._client anew and awaits the ping. The sleep of the loop of run_query: the next
\* turn opens a session on self._driver and awaits the round trip; when a close has
\* unset the driver meanwhile it raises AttributeError, which no retry loop catches:
\* connect raises, check_health returns False
Wake(t) ==
    /\ tpc[t] = "sleep"
    /\ IF tinner[t] = 0
       THEN /\ inst' = [inst EXCEPT ![tinst[t]] = Client(StoreOf(tinst[t]), TRUE, FALSE)]
            /\ tatt' = [tatt EXCEPT ![t] = @ + 1]
            /\ tinner' = [tinner EXCEPT ![t] = IF RunsQuery(StoreOf(tinst[t])) THEN 1 ELSE 0]
            /\ tpc' = [tpc EXCEPT ![t] = "ping"]
            /\ UNCHANGED <<tcall, tres, estatus>>
       ELSE LET c == IF tcall[t][1] = "endpoint" THEN eref[t][tcall[t][2]] ELSE tinst[t]
            IN IF ClientSet(c)
               THEN /\ tinner' = [tinner EXCEPT ![t] = @ + 1]
                    /\ tpc' = [tpc EXCEPT ![t] = CASE tcall[t][1] = "health" -> "probe"
                                                   [] tcall[t][1] = "endpoint" -> "eprobe"
                                                   [] OTHER -> "ping"]
                    /\ UNCHANGED <<inst, tatt, tcall, tres, estatus>>
               ELSE /\ UNCHANGED <<inst, tatt>>
                    /\ CASE tcall[t][1] = "health" ->
                              /\ TaskEnds(t, ProbeFailed)
                              /\ tinner' = [tinner EXCEPT ![t] = 0]
                              /\ UNCHANGED <<tcall, estatus>>
                         [] tcall[t][1] = "endpoint" -> EndpointGoes(t, tcall[t][2], FALSE)
                         [] OTHER ->
                              /\ InitEnds(t, StoreOf(c), FALSE)
                              /\ tinner' = [tinner EXCEPT ![t] = 0]
                              /\ UNCHANGED estatus
    /\ UNCHANGED <<kvVars, graphVars, syncVars, docs, sweepVars, batchVars, retryVars, eref, repairVars, rateVars,
                   singleton, tinst, tlog, tcalls, startVars>>

\* get_<s>()
GetClient(t, s) ==
    /\ TaskBegin(t, "get", s)
    /\ TaskEnds(t, IF singleton[s] = 0 THEN <<"raised">> ELSE <<"returned", singleton[s]>>)
    /\ UNCHANGED <<kvVars, graphVars, syncVars, docs, sweepVars, batchVars, retryVars, endVars, repairVars, rateVars,
                   singleton, inst, tinst, tatt, tinner, startVars>>

\* close_<s>(): `if <s>_client: await <s>_client.close(); <s>_client = None`. The
\* client's close does nothing when its _client is unset, closes at once for mongodb,
\* and suspends at the driver's close for redis and neo4j
StartClose(t, s) ==
    /\ TaskBegin(t, "close", s)
    /\ LET c == singleton[s]
       IN IF c = 0
          THEN TaskEnds(t, <<"returned", 0>>) /\ UNCHANGED <<singleton, inst, tinst>>
          ELSE IF ClientSet(c) /\ ClosesAsync(s)
          THEN /\ tpc' = [tpc EXCEPT ![t] = "closing"]
               /\ tinst' = [tinst EXCEPT ![t] = c]
               /\ tres' = [tres EXCEPT ![t] = <<>>]
               /\ UNCHANGED <<singleton, inst>>
          ELSE /\ inst' = [inst EXCEPT ![c] = Client(s, FALSE, FALSE)]
               /\ singleton' = [singleton EXCEPT ![s] = 0]
               /\ TaskEnds(t, <<"returned", 0>>)
               /\ UNCHANGED tinst
    /\ UNCHANGED <<kvVars, graphVars, syncVars, docs, sweepVars, batchVars, retryVars, endVars, repairVars, rateVars, tatt, tinner, startVars>>

\* close_<s>() resumes after the driver's close: self._client = None, then
\* <s>_client = None; a driver close that raises leaves both as they are
FinishClose(t, fails) ==
    /\ tpc[t] = "closing"
    /\ LET c == tinst[t]
       IN IF fails
          THEN TaskEnds(t, <<"raised">>) /\ UNCHANGED <<singleton, inst>>
          ELSE /\ inst' = [inst EXCEPT ![c] = Client(StoreOf(c), FALSE, FALSE)]
               /\ singleton' = [singleton EXCEPT ![StoreOf(c)] = 0]
               /\ TaskEnds(t, <<"returned", 0>>)
    /\ UNCHANGED <<kvVars, graphVars, syncVars, docs, sweepVars, batchVars, retryVars, endVars, repairVars, rateVars,
                   tcall, tinst, tatt, tinner, tlog, tcalls, startVars>>

\* client.check_health() on the client object c: False at once when its _client is
\* unset, else the probe round trip
StartHealth(t, c) ==
    /\ c \in 1..Len(inst)
    /\ TaskBegin(t, "health", StoreOf(c))
    /\ tinst' = [tinst EXCEPT ![t] = c]
    /\ IF ~ClientSet(c)
       THEN TaskEnds(t, <<"returned", FALSE>>) /\ tinner' = [tinner EXCEPT ![t] = 0]
       ELSE /\ tpc' = [tpc EXCEPT ![t] = "probe"]
            /\ tres' = [tres EXCEPT ![t] = <<>>]
            /\ tinner' = [tinner EXCEPT ![t] = IF RunsQuery(StoreOf(c)) THEN 1 ELSE 0]
    /\ UNCHANGED <<kvVars, graphVars, syncVars, docs, sweepVars, batchVars, retryVars, endVars, repairVars, rateVars,
                   singleton, inst, tatt, startVars>>

\* check_health resumes after the round trip of its probe: it answered ("ok"), answered
\* something else than expected ("bad", Neo4jClient only) or raised an error. An error
\* the loop of run_query catches is followed by its sleep and its next round trip;
\* an error that leaves the probe makes check_health return False
Probe(t, outcome) ==
    /\ tpc[t] = "probe"
    /\ outcome \in {"ok"} \cup ErrorsOf(tcall[t][2])
                  \cup (IF tcall[t][2] = "neo4j" THEN {"bad"} ELSE {})
    /\ IF /\ RunsQuery(tcall[t][2]) /\ Caught(<<tcall[t][2], "execute">>, outcome)
          /\ tinner[t] + 1 \in AttemptRange(MaxRetryAttempts)
       THEN /\ tlog' = [tlog EXCEPT ![t] = Append(Append(@, <<"ping", outcome>>),
                                                  <<"sleep", WaitTime(1, tinner[t])>>)]
            /\ tpc' = [tpc EXCEPT ![t] = "sleep"]
            /\ UNCHANGED <<tres, tinner>>
       ELSE /\ tlog' = [tlog EXCEPT ![t] = Append(@, <<"ping", outcome>>)]
            /\ tinner' = [tinner EXCEPT ![t] = 0]
            /\ TaskEnds(t, CASE outcome = "ok" -> <<"returned", TRUE>>
                             [] outcome = "bad" -> <<"returned", FALSE>>
                             [] OTHER -> ProbeFailed)
    /\ UNCHANGED <<kvVars, graphVars, syncVars, docs, sweepVars, batchVars, retryVars, endVars, repairVars, rateVars,
                   singleton, inst, tcall, tinst, tatt, tcalls, startVars>>

Outcomes == {"ok", "bad"} \cup UNION {ErrorsOf(s) : s \in Stores}

\* the round trips of the call t is in that failed
Failures(t) == SelectSeq(tlog[t], LAMBDA e : e[1] \in {"ping", "probe"} /\ e[Len(e)] # "ok")

\* the failed round trips in the logs of the coroutines of T
RECURSIVE FailureCount(_)
FailureCount(T) ==
    IF T = {} THEN 0
    ELSE LET t == CHOOSE u \in T : TRUE
         IN Len(Failures(t)) + FailureCount(T \ {t})

\* the answers to the next round trip, the stores failing at most MaxFailures round
\* trips of the calls the coroutines are in
OutcomesLeft == IF FailureCount(Tasks) < MaxFailures THEN Outcomes ELSE {"ok"}

ClientInit == Init /\ uniqueId = TRUE

ClientNext ==
    \/ \E t \in Tasks : Startup(t)
    \/ \E t \in Tasks, s \in Stores : StartInit(t, s)
    \/ \E t \in Tasks, outcome \in OutcomesLeft : Ping(t, outcome)
    \/ \E t \in Tasks : Wake(t)
    \/ \E t \in Tasks, s \in Stores : GetClient(t, s)
    \/ \E t \in Tasks, s \in Stores : StartClose(t, s)
    \/ \E t \in Tasks, fails \in BOOLEAN : FinishClose(t, fails)
    \/ \E t \in Tasks, c \in 1..MaxInstances : StartHealth(t, c)
    \/ \E t \in Tasks, outcome \in OutcomesLeft : Probe(t, outcome)

ClientSpec == ClientInit /\ [][ClientNext]_vars

\* the coroutines that made every call of the process so far
Sequential == {t \in Tasks : \A u \in Tasks \ {t} : tcalls[u] = 0}

\* the startup hook, and init_* calls made one after the other, the stores answering
\* every round trip in any way
ConnectNext ==
    \/ \E t \in Tasks : Startup(t)
    \/ \E t \in Sequential, s \in Stores : StartInit(t, s)
    \/ \E t \in Tasks, outcome \in Outcomes : Ping(t, outcome)
    \/ \E t \in Tasks : Wake(t)

ConnectSpec == ClientInit /\ [][ConnectNext]_vars

\* ------------------------------------------------------------- GET /health
\* GET /health: check_databases calls get_mongodb, get_neo4j, get_redis (one that raises
\* gives the all-False dict) and then check_health of the three clients in turn
StartEndpoint(t) ==
    LET c == IF \E s \in Stores : singleton[s] = 0 THEN <<"none", AllFalse>>
             ELSE Checks(singleton, "mongodb", AllFalse)
    IN /\ TaskBegin(t, "endpoint", IF c[1] = "none" THEN "redis" ELSE c[1])
       /\ eref' = [eref EXCEPT ![t] = singleton]
       /\ IF c[1] = "none"
          THEN Respond(t, c[2]) /\ tinner' = [tinner EXCEPT ![t] = 0]
          ELSE /\ estatus' = [estatus EXCEPT ![t] = c[2]]
               /\ tpc' = [tpc EXCEPT ![t] = "eprobe"]
               /\ tres' = [tres EXCEPT ![t] = <<>>]
               /\ tinner' = [tinner EXCEPT ![t] = IF RunsQuery(c[1]) THEN 1 ELSE 0]
       /\ UNCHANGED <<kvVars, graphVars, syncVars, docs, sweepVars, batchVars, retryVars,
                      repairVars, rateVars, singleton, inst, tinst, tatt, startVars>>

\* the round trip of the probe of the check_health the request of t awaits is over. An
\* error the loop of run_query catches is followed by its sleep and its next round
\* trip; else the check returns True when the probe answered and False otherwise, and
\* check_databases goes on
EndpointProbe(t, outcome) ==
    /\ tpc[t] = "eprobe"
    /\ LET s == tcall[t][2]
       IN /\ outcome \in {"ok"} \cup ErrorsOf(s) \cup (IF s = "neo4j" THEN {"bad"} ELSE {})
          /\ IF /\ RunsQuery(s) /\ Caught(<<s, "execute">>, outcome)
                /\ tinner[t] + 1 \in AttemptRange(MaxRetryAttempts)
             THEN /\ tlog' = [tlog EXCEPT ![t] = Append(Append(@, <<"probe", s, outcome>>),
                                                        <<"sleep", WaitTime(1, tinner[t])>>)]
                  /\ tpc' = [tpc EXCEPT ![t] = "sleep"]
                  /\ UNCHANGED <<tres, tcall, estatus, tinner>>
             ELSE /\ tlog' = [tlog EXCEPT ![t] = Append(@, <<"probe", s, outcome>>)]
                  /\ EndpointGoes(t, s, outcome = "ok")
    /\ UNCHANGED <<kvVars, graphVars, syncVars, docs, sweepVars, batchVars, retryVars,
                   repairVars, rateVars, singleton, inst, tinst, tatt, tcalls, eref, startVars>>

HealthNext ==
    \/ \E t \in Tasks, s \in Stores : StartInit(t, s)
    \/ \E t \in Tasks, outcome \in OutcomesLeft : Ping(t, outcome)
    \/ \E t \in Tasks : Wake(t)
    \/ \E t \in Tasks, s \in Stores : StartClose(t, s)
    \/ \E t \in Tasks, fails \in BOOLEAN : FinishClose(t, fails)
    \/ \E t \in Tasks : StartEndpoint(t)
    \/ \E t \in Tasks, outcome \in OutcomesLeft : EndpointProbe(t, outcome)

HealthSpec == ClientInit /\ [][HealthNext]_vars

\* ------------- ensure_insight_consistency and ensure_relationship_consistency
\* the ids a repair is called with: the entity ids, and 0 for a string ObjectId() rejects
RepairIds == 0..NumEntities

\* a repair that only ever creates
RepairOfCreateOnly(found, exists) ==
    IF found /\ ~exists THEN "create" ELSE "none"

\* ensure_insight_consistency after its two reads: `if mongo_insight:` .. `if not
\* neo4j_insight_exists:` create; `else:` .. `if neo4j_insight_exists:` remove
RepairOf(found, exists) ==
    CASE found /\ ~exists -> "create"
      [] ~found /\ exists -> "remove"
      [] OTHER -> "none"

\* a repair that restores the document of an orphaned node from the node
RepairOrphanRestores(d, g, i) ==
    <<[d EXCEPT ![i] = IF CountId(g, i) > 0
                       THEN <<NodeTitle(g[CHOOSE k \in DOMAIN g : NodeId(g[k]) = i]), <<>>>>
                       ELSE @], g>>

\* the two stores after the repair of the orphaned node i: MATCH (i:Insight {id: $id})
\* DETACH DELETE i, the insights collection is not written
RepairOrphan(d, g, i) == <<d, DeleteInsightNode(g, i)>>

\* a relationship repair that acts only when both endpoints are gone
NeedsRepairBoth(source, target) == source = <<>> /\ target = <<>>

\* ensure_relationship_consistency: `if not source or not target:`
NeedsRepair(source, target) == source = <<>> \/ target = <<>>

\* MATCH (s:Insight {id: $source_id})-[r]-(t:Insight {id: $target_id}) DELETE r
DeleteRelationships(e, a, b) ==
    {x \in e : ~(x[1] = "RELATED_TO" /\ (<<x[2], x[3]>> = <<a, b>> \/ <<x[2], x[3]>> = <<b, a>>))}

RepairKind == xcall[1]
SourceId == xcall[2]
TargetId == xcall[3]

\* the call returns ok: `return True`, or `return False` of the except clause
RepairEnds(ok) ==
    /\ xpc' = "done"
    /\ xret' = <<ok>>

\* await consistency_manager.ensure_insight_consistency(i) or
\* ensure_relationship_consistency(a, b)
StartRepair(kind, a, b) ==
    /\ xpc \in {"idle", "done"}
    /\ xcalls < MaxRepairs
    /\ kind = "insight" => a = b
    /\ xcalls' = xcalls + 1
    /\ xcall' = <<kind, a, b>>
    /\ xpc' = "find_s"
    /\ xfound' = <<<<>>, <<>>>>
    /\ xtags' = <<>>
    /\ xret' = <<>>
    /\ xg0' = <<nodes, edges>>
    /\ UNCHANGED <<kvVars, graphVars, syncVars, docs, sweepVars, batchVars, retryVars, clientVars, endVars, rateVars, startVars>>

\* mongodb.db.insights.find_one({"_id": ObjectId(source_id)}): ObjectId raises on a
\* string that is no id, find_one may raise, else the document or None
FindSource(fails) ==
    /\ xpc = "find_s"
    /\ IF fails \/ SourceId = 0
       THEN RepairEnds(FALSE) /\ UNCHANGED xfound
       ELSE /\ xfound' = <<docs[SourceId], <<>>>>
            /\ xpc' = IF RepairKind = "insight" THEN "match" ELSE "find_t"
            /\ UNCHANGED xret
    /\ UNCHANGED <<kvVars, graphVars, syncVars, docs, sweepVars, batchVars, retryVars, clientVars, endVars, rateVars,
                   xcall, xtags, xg0, xcalls, startVars>>

\* MATCH (i:Insight {id: $id}) RETURN i, and the branch taken on the two answers
MatchNode(fails) ==
    /\ xpc = "match"
    /\ IF fails
       THEN RepairEnds(FALSE)
       ELSE LET todo_ == RepairOf(xfound[1] # <<>>, CountId(nodes, SourceId) > 0)
            IN IF todo_ = "none" THEN RepairEnds(TRUE)
               ELSE xpc' = todo_ /\ UNCHANGED xret
    /\ UNCHANGED <<kvVars, graphVars, syncVars, docs, sweepVars, batchVars, retryVars, clientVars, endVars, rateVars,
                   xcall, xfound, xtags, xg0, xcalls, startVars>>

\* _create_insight_in_neo4j, first round trip: CREATE (i:Insight {..}) from the document
\* read; the tags follow, if it has any, then `return True`
RepairCreate(fails) ==
    /\ xpc = "create"
    /\ IF fails \/ ConstraintViolated(nodes, SourceId)
       THEN RepairEnds(FALSE) /\ UNCHANGED <<nodes, xtags>>
       ELSE /\ nodes' = Append(nodes, Node(SourceId, xfound[1][1], OwnerOf(SourceId), <<>>))
            /\ xtags' = TagsToAdd(SourceId, xfound[1])
            /\ IF xtags' = <<>> THEN RepairEnds(TRUE) ELSE xpc' = "tag" /\ UNCHANGED xret
    /\ UNCHANGED <<kvVars, edges, detached, uniqueId, syncVars, docs, sweepVars, batchVars, retryVars, clientVars, endVars, rateVars,
                   xcall, xfound, xg0, xcalls, startVars>>

\* _create_insight_in_neo4j, the round trip of one tag of the loop, then `return True`
\* after the last
RepairTag(fails) ==
    /\ xpc = "tag"
    /\ IF fails
       THEN RepairEnds(FALSE) /\ UNCHANGED <<edges, xtags>>
       ELSE /\ edges' = MergeTag(nodes, edges, xtags[1], Head(xtags[2]))
            /\ xtags' = TagsLeft(xtags)
            /\ IF xtags' = <<>> THEN RepairEnds(TRUE) ELSE UNCHANGED <<xpc, xret>>
    /\ UNCHANGED <<kvVars, nodes, detached, uniqueId, syncVars, docs, sweepVars, batchVars, retryVars, clientVars, endVars, rateVars,
                   xcall, xfound, xg0, xcalls, startVars>>

\* MATCH (i:Insight {id: $id}) DETACH DELETE i of the orphaned node, then `return True`
RepairRemove(fails) ==
    /\ xpc = "remove"
    /\ IF fails
       THEN RepairEnds(FALSE) /\ UNCHANGED <<nodes, edges, detached, docs>>
       ELSE /\ docs' = RepairOrphan(docs, nodes, SourceId)[1]
            /\ nodes' = RepairOrphan(docs, nodes, SourceId)[2]
            /\ edges' = DetachEdges(edges, SourceId)
            /\ detached' = EdgesOf(edges, SourceId)
            /\ RepairEnds(TRUE)
    /\ UNCHANGED <<kvVars, uniqueId, syncVars, sweepVars, batchVars, retryVars, clientVars, endVars, rateVars,
                   xcall, xfound, xtags, xg0, xcalls, startVars>>

\* mongodb.db.insights.find_one({"_id": ObjectId(target_id)}), and `if not source or
\* not target:`
FindTarget(fails) ==
    /\ xpc = "find_t"
    /\ IF fails \/ TargetId = 0
       THEN RepairEnds(FALSE) /\ UNCHANGED xfound
       ELSE /\ xfound' = <<xfound[1], docs[TargetId]>>
            /\ IF NeedsRepair(xfound[1], docs[TargetId])
               THEN xpc' = "del_r" /\ UNCHANGED xret
               ELSE RepairEnds(TRUE)
    /\ UNCHANGED <<kvVars, graphVars, syncVars, docs, sweepVars, batchVars, retryVars, clientVars, endVars, rateVars,
                   xcall, xtags, xg0, xcalls, startVars>>

\* what follows a round trip of the relationship repair: `if not source:` DETACH DELETE s,
\* `if not target:` DETACH DELETE t, `return True`
RepairGoes(after_) ==
    IF after_ = "del_r" /\ xfound[1] = <<>>
    THEN xpc' = "del_s" /\ UNCHANGED xret
    ELSE IF after_ # "del_t" /\ xfound[2] = <<>>
    THEN xpc' = "del_t" /\ UNCHANGED xret
    ELSE RepairEnds(TRUE)

\* MATCH (s {id: $source_id})-[r]-(t {id: $target_id}) DELETE r
DeleteRelation(fails) ==
    /\ xpc = "del_r"
    /\ IF fails
       THEN RepairEnds(FALSE) /\ UNCHANGED edges
       ELSE /\ edges' = DeleteRelationships(edges, SourceId, TargetId)
            /\ RepairGoes("del_r")
    /\ UNCHANGED <<kvVars, nodes, detached, uniqueId, syncVars, docs, sweepVars, batchVars, retryVars, clientVars, endVars, rateVars,
                   xcall, xfound, xtags, xg0, xcalls, startVars>>

\* MATCH (s:Insight {id: $id}) DETACH DELETE s for the source, or for the target
DeleteEndpoint(fails) ==
    /\ xpc \in {"del_s", "del_t"}
    /\ IF fails
       THEN RepairEnds(FALSE) /\ UNCHANGED <<nodes, edges, detached>>
       ELSE LET i == IF xpc = "del_s" THEN SourceId ELSE TargetId
            IN /\ nodes' = DeleteInsightNode(nodes, i)
               /\ edges' = DetachEdges(edges, i)
               /\ detached' = EdgesOf(edges, i)
               /\ RepairGoes(xpc)
    /\ UNCHANGED <<kvVars, uniqueId, syncVars, docs, sweepVars, batchVars, retryVars, clientVars, endVars, rateVars,
                   xcall, xfound, xtags, xg0, xcalls, startVars>>

\* the repairs on stores nobody else writes
RepairNext ==
    \/ \E kind \in {"insight", "relationship"}, a \in RepairIds, b \in RepairIds : StartRepair(kind, a, b)
    \/ \E fails \in BOOLEAN : FindSource(fails)
    \/ \E fails \in BOOLEAN : MatchNode(fails)
    \/ \E fails \in BOOLEAN : RepairCreate(fails)
    \/ \E fails \in BOOLEAN : RepairTag(fails)
    \/ \E fails \in BOOLEAN : RepairRemove(fails)
    \/ \E fails \in BOOLEAN : FindTarget(fails)
    \/ \E fails \in BOOLEAN : DeleteRelation(fails)
    \/ \E fails \in BOOLEAN : DeleteEndpoint(fails)

RepairSpec == ReconInit /\ [][RepairNext]_vars

\* ------------------ the writers of the graph store side by side, on stores that agree
\* at first: the endpoints and their sync_insight, the startup task, a task that calls
\* perform_full_consistency_check and a task that calls ensure_insight_consistency or
\* ensure_relationship_consistency. Nothing in DatabaseConsistencyManager makes one
\* call wait for another: the round trips of the tasks interleave freely.
\* the two tasks make MaxSweeps calls in all
CallsLeft == sweeps + xcalls < MaxSweeps

\* the requests write documents of title 1, the repairs are called for the ids the
\* requests write
TruthNext ==
    \/ \E p \in Requesters, i \in Ids, op \in Ops, tags \in TagLists :
          DocWrite(p, i, op, 1, tags)
    \/ \E p \in Requesters : SyncAfterWrite(p)
    \/ \E fails \in BOOLEAN : VerifyDatabaseConsistency(fails)
    \/ \E stop \in 1..(NumEntities + 1) : ProcessConsistencyCheck(stop)
    \/ CallsLeft /\ StartSweep
    \/ \E kind \in {"insight", "relationship"}, a \in Ids, b \in Ids :
          CallsLeft /\ StartRepair(kind, a, b)
    \/ \E fails \in BOOLEAN : ReadDocs(fails)
    \/ \E fails \in BOOLEAN : ReadGraph(fails)
    \/ \E i \in Entities, fails \in BOOLEAN : CreateNode(i, fails)
    \/ \E fails \in BOOLEAN : TagNode(fails)
    \/ \E i \in Entities, fails \in BOOLEAN : RemoveNode(i, fails)
    \/ \E fails \in BOOLEAN : FindSource(fails)
    \/ \E fails \in BOOLEAN : MatchNode(fails)
    \/ \E fails \in BOOLEAN : RepairCreate(fails)
    \/ \E fails \in BOOLEAN : RepairTag(fails)
    \/ \E fails \in BOOLEAN : RepairRemove(fails)
    \/ \E fails \in BOOLEAN : FindTarget(fails)
    \/ \E fails \in BOOLEAN : DeleteRelation(fails)
    \/ \E fails \in BOOLEAN : DeleteEndpoint(fails)

TruthSpec == RaceInit /\ [][TruthNext]_vars

\* ------------------------- the rate limit: RateLimitMiddleware, check_rate_limit,
\* increment_counter, on the counter key of one client address and path
\* INCR key: the value plus one, 1 for a key that did not exist; the expiry of the key
\* is left as it is, so a key INCR creates has none
IncrKey(k) == <<k[1] + 1, k[2]>>

\* EXPIRE key ttl: sets the expiry of a key that exists
ExpireKey(k, ttl) == IF k[1] > 0 THEN <<k[1], ttl>> ELSE k

\* `return counter <= limit`, and the answer of the middleware: the request goes on,
\* or 429
Answer(counter, limit) == IF counter <= limit THEN "admitted" ELSE "rejected"

\* the request of c ends with outcome r
RequestEnds(c, r) ==
    /\ qpc' = [qpc EXCEPT ![c] = "done"]
    /\ qres' = [qres EXCEPT ![c] = r]

\* dispatch: limiter.check_limit_for_ip(ip, action, limit, window), down to
\* increment_counter(key, window)
StartRequest(c, limit, window) ==
    /\ qpc[c] \in {"idle", "done"}
    /\ qcalls[c] < MaxRequests
    /\ qcalls' = [qcalls EXCEPT ![c] = @ + 1]
    /\ qarg' = [qarg EXCEPT ![c] = <<limit, window>>]
    /\ qpc' = [qpc EXCEPT ![c] = "incr"]
    /\ qctr' = [qctr EXCEPT ![c] = 0]
    /\ qres' = [qres EXCEPT ![c] = "none"]
    /\ UNCHANGED <<kvVars, graphVars, syncVars, docs, sweepVars, batchVars, retryVars, clientVars, endVars, repairVars, ctr, startVars>>

\* counter = await self._execute_with_retry(self._client.incr, key); `if counter == 1:`
\* the expiry follows, else `return counter`
Incr(c, failures) ==
    /\ qpc[c] = "incr"
    /\ IF RetriesExhausted(failures)
       THEN RequestEnds(c, "raised") /\ UNCHANGED <<ctr, qctr>>
       ELSE /\ ctr' = IncrKey(ctr)
            /\ qctr' = [qctr EXCEPT ![c] = ctr'[1]]
            /\ IF ctr'[1] = 1
               THEN qpc' = [qpc EXCEPT ![c] = "expire"] /\ UNCHANGED qres
               ELSE RequestEnds(c, Answer(ctr'[1], qarg[c][1]))
    /\ UNCHANGED <<kvVars, graphVars, syncVars, docs, sweepVars, batchVars, retryVars, clientVars, endVars, repairVars, qarg, qcalls, startVars>>

\* await self._execute_with_retry(self._client.expire, key, ttl); return counter
SetExpiry(c, failures) ==
    /\ qpc[c] = "expire"
    /\ IF RetriesExhausted(failures)
       THEN RequestEnds(c, "raised") /\ UNCHANGED ctr
       ELSE /\ ctr' = ExpireKey(ctr, qarg[c][2])
            /\ RequestEnds(c, Answer(qctr[c], qarg[c][1]))
    /\ UNCHANGED <<kvVars, graphVars, syncVars, docs, sweepVars, batchVars, retryVars, clientVars, endVars, repairVars, qarg, qctr, qcalls, startVars>>

\* the process serving the request of c ends between the INCR and the EXPIRE
RequestCrash(c) ==
    /\ qpc[c] = "expire"
    /\ qpc' = [qpc EXCEPT ![c] = "crashed"]
    /\ UNCHANGED <<kvVars, graphVars, syncVars, docs, sweepVars, batchVars, retryVars, clientVars, endVars, repairVars, ctr, qarg, qctr, qres, qcalls, startVars>>

\* store time advances by one tick: the expiry of the counter key counts down, and the
\* key is removed when it reaches zero; a key without expiry stays
RateTick ==
    /\ ctr[1] > 0
    /\ ctr[2] > 0
    /\ ctr' = IF ctr[2] = 1 THEN <<0, 0>> ELSE <<ctr[1], ctr[2] - 1>>
    /\ UNCHANGED <<kvVars, graphVars, syncVars, docs, sweepVars, batchVars, retryVars, clientVars, endVars, repairVars, qpc, qarg, qctr, qres, qcalls, startVars>>

\* the round trips of the request of c
RateStep(c) ==
    \E failures \in Attempts : Incr(c, failures) \/ SetExpiry(c, failures)

RateNext ==
    \/ \E c \in Clients, limit \in 1..MaxLimit, window \in 1..MaxWindow : StartRequest(c, limit, window)
    \/ \E c \in Clients, failures \in Attempts : Incr(c, failures)
    \/ \E c \in Clients, failures \in Attempts : SetExpiry(c, failures)
    \/ \E c \in Clients : RequestCrash(c)
    \/ RateTick

RateSpec == ClientInit /\ [][RateNext]_vars

\* the store's clock runs, and the event loop resumes a request whose round trip is over
RateLiveSpec == RateSpec /\ WF_vars(RateTick) /\ \A c \in Clients : WF_vars(RateStep(c))

\* ------------------------------------------------------------------ claims
\* p's acquire_lock call for name n started while the key was absent, the key was
\* not removed since, and the call returned a value
AcqSettled(p, n) ==
    /\ Kind(p) = "acquire" /\ IdOf(p) = n /\ pc[p] = "done"
    /\ startVal[p] = <<>> /\ ~removed[p]
    /\ res[p] \in {"true", "false"}

\* C1: lock exclusivity. Of two acquire calls for the same name, made with different
\* tokens while the key was absent and overlapping in time (the key was not removed
\* since either started, and no third caller took it), exactly one returns true and
\* the key holds that caller's token.
C1_LockExclusivity ==
    \A n \in Ids : \A p, q \in Procs :
        (/\ p # q /\ AcqSettled(p, n) /\ AcqSettled(q, n)
         /\ \A r \in Procs \ {p, q} : Val(lock[n]) # <<Token(r)>>)
        => /\ (res[p] = "true") # (res[q] = "true")
           /\ (res[p] = "true") <=> (Val(lock[n]) = <<Token(p)>>)
           /\ (res[q] = "true") <=> (Val(lock[n]) = <<Token(q)>>)

C1_Witness ==
    \E n \in Ids : \E p, q \in Procs :
        /\ p # q /\ AcqSettled(p, n) /\ AcqSettled(q, n)
        /\ res[p] = "true" /\ res[q] = "false"
        /\ Val(lock[n]) = <<Token(p)>>

\* p takes a step of a release_lock call that it started while the key did not hold its token
ForeignReleaseStep(p) ==
    /\ Kind(p) = "release"
    /\ pc[p] \in {"rel_get", "rel_del"}
    /\ startVal[p] # <<Token(p)>>
    /\ pc'[p] # pc[p]

\* C2: lock non-interference. A release presenting a token while the key holds another
\* token, or is absent, never deletes: every step of the call leaves the key, its value
\* and its expiry unchanged, and when the call returns it returns false (it can only
\* raise instead, after the store failed on every attempt).
C2_NonInterference ==
    [][\A p \in Procs :
        ForeignReleaseStep(p) =>
            /\ lock' = lock
            /\ pc'[p] # "rel_del"
            /\ pc'[p] = "done" =>
                 \/ res'[p] = "false"
                 \/ res'[p] = "raised" /\ "rel" \in exhausted'[p]]_vars

\* a release by a non-owner has returned false while another caller's token is in the key
C2_Witness ==
    \E p \in Procs :
        /\ Kind(p) = "release" /\ pc[p] = "done" /\ res[p] = "false"
        /\ startVal[p] # <<>> /\ startVal[p] # <<Token(p)>>
        /\ Val(lock[IdOf(p)]) = startVal[p]

\* C3: release deletes the key only if the value stored at the moment of the deletion
\* is the caller's token (it never removes a lock re-acquired by another caller after
\* the caller's own lock expired).
C3_DeleteOnlyOwnToken ==
    [][\A p \in Procs :
        (pc[p] = "rel_del" /\ pc'[p] = "done" /\ lock' # lock)
            => Val(lock[IdOf(p)]) = <<Token(p)>>]_vars


\* p's sync_insight call has ended
SyncDone(p) == Kind(p) = "sync" /\ pc[p] = "done"

\* the step is the sync_insight call of p, from its start to its end
SyncStep(p) == calls'[p] = calls[p] + 1 /\ call'[p][1] = "sync"

\* p's sync_insight call is between its successful acquire and its release: the
\* coroutine acquired the lock and has not ended
InLock(p) == Kind(p) = "sync" /\ acq[p] = "true" /\ pc[p] \notin {"idle", "done"}

\* C4: two sync_insight calls for the same id are serialized by the lock: in every
\* reachable state at most one sync_insight call for an id is between its successful
\* acquire and its release, where the graph writes and the cache invalidation are done.
C4_SerializedByLock ==
    \A p, q \in Procs :
        (p # q /\ IdOf(p) = IdOf(q)) => ~(InLock(p) /\ InLock(q))

\* two callers made a sync_insight call for the same id, the second while the first
\* had ended, and both calls are over
C4_Witness ==
    \E p, q \in Procs :
        /\ p # q /\ SyncDone(p) /\ SyncDone(q) /\ IdOf(p) = IdOf(q)
        /\ p \in after[q]

\* C5: every sync_insight call that acquired the lock has called release_lock when it
\* returns, and when a sync_insight call has returned (normally or by error) the lock
\* key of its id does not hold the token of the call. The token is the call's own: the
\* key did not hold it when the call began.
C5_ReleasedOnReturn ==
    \A p \in Procs :
        SyncDone(p)
            => /\ acq[p] = "true" => rel[p] \in {"true", "false"}
               /\ startVal[p] # <<Token(p)>> => Val(lock[IdOf(p)]) # <<Token(p)>>

\* a sync_insight call made while the lock key of its id was absent has ended by an
\* error, and the key is absent
C5_Witness ==
    \E p \in Procs :
        /\ SyncDone(p) /\ res[p] = "raised" /\ startVal[p] = <<>>
        /\ Val(lock[IdOf(p)]) = <<>>

\* C6: a sync_insight call made while another caller holds the lock key of its id
\* (acquire_lock returns false) returns after that single attempt, without a graph
\* write, without a cache command and leaving the lock key to its holder.
C6_NoEffectWhenNotAcquired ==
    [][\A p \in Procs :
        (SyncStep(p) /\ Val(lock[call'[p][2]]) # <<>>)
            => /\ acq'[p] = "false" /\ res'[p] = "returned"
               /\ lock' = lock /\ nodes' = nodes /\ edges' = edges /\ cache' = cache]_vars

\* C7: acquire fails closed. When every attempt of the acquire round trip failed,
\* acquire_lock does not report the lock as acquired (it raises) and leaves the key as
\* it was, and no sync_insight call writes to the graph store without the lock.
C7_AcquireFailsClosed ==
    [][\A p \in Procs :
        /\ (pc[p] = "acq" /\ "acq" \in exhausted'[p])
              => /\ acq'[p] = "raised" /\ res'[p] = "raised" /\ pc'[p] = "done"
                 /\ lock' = lock
        /\ (SyncStep(p) /\ acq'[p] # "true")
              => nodes' = nodes /\ edges' = edges]_vars

\* an acquire_lock call raised after the store failed on every attempt, the key is still
\* absent, and a sync_insight call ended without the lock and without a graph write
C7_Witness ==
    \E p, q \in Procs :
        /\ Kind(p) = "acquire" /\ pc[p] = "done" /\ "acq" \in exhausted[p]
        /\ res[p] = "raised" /\ acq[p] = "raised"
        /\ Val(lock[IdOf(p)]) = <<>>
        /\ SyncDone(q) /\ acq[q] # "true" /\ nodes = <<>>

\* C8: sync_insight never surfaces an error to its caller: every call returns normally.
C8_NeverRaises ==
    \A p \in Procs : SyncDone(p) => res[p] = "returned"

\* C9: create is idempotent. When sync_insight(id, "create") was called twice in a row
\* on an empty graph store and nothing else was called, the second call ended as the
\* first did and exactly one Insight node with that id exists.
C9_CreateIdempotent ==
    \A p, q \in Procs :
        (/\ p # q /\ p \in after[q]
         /\ SyncDone(p) /\ SyncDone(q)
         /\ OpOf(p) = "create" /\ OpOf(q) = "create" /\ IdOf(p) = IdOf(q)
         /\ calls[p] = 1 /\ calls[q] = 1
         /\ \A r \in Procs \ {p, q} : calls[r] = 0)
        => /\ res[q] = res[p]
           /\ CountId(nodes, IdOf(p)) = 1

\* C10: upsert. When a sync_insight(id, intent) with intent create or update has ended,
\* the graph store holds exactly one node with that id and its properties are those of
\* the record, whether or not a node with that id existed before.
C10_Upsert ==
    [][\A p \in Procs :
        (SyncStep(p) /\ call'[p][4] \in {"create", "update"})
        => /\ CountId(nodes', call'[p][2]) = 1
           /\ \E k \in DOMAIN nodes' :
                 nodes'[k] = Projection(call'[p][2], <<call'[p][5], call'[p][6]>>)]_vars

\* C11: delete detaches edges. When a sync_insight(A, "delete") has ended, the graph
\* store holds no node with id A and no edge whose source or target is A, however many
\* there were, and the other nodes and edges are as they were.
C11_DeleteDetaches ==
    [][\A p \in Procs :
        (SyncStep(p) /\ call'[p][4] = "delete")
        => LET A == call'[p][2]
           IN /\ CountId(nodes', A) = 0
              /\ \A x \in edges' : x[2] # A /\ (x[1] = "RELATED_TO" => x[3] # A)
              /\ nodes' = SelectSeq(nodes, LAMBDA n : n[1] # A)
              /\ edges' \subseteq edges
              /\ \A x \in edges \ edges' : x[2] = A \/ (x[1] = "RELATED_TO" /\ x[3] = A)]_vars

\* C12: cache invalidation. When a sync_insight(id, intent) has ended, for intent
\* create, update or delete, the cache holds no entry under insight:<id>, under
\* insights:user:<owner>:* or under mindmap:<id>:*.
C12_CacheInvalidated ==
    [][\A p \in Procs :
        SyncStep(p)
        => /\ Keys(cache', "insight", call'[p][2]) = {}
           /\ Keys(cache', "user", OwnerOf(call'[p][2])) = {}
           /\ Keys(cache', "mindmap", call'[p][2]) = {}]_vars

\* C13: convergence. When a sweep that nobody raced has returned True, the graph store
\* holds exactly one Insight node for every id of the document store and none for any
\* other id, whatever the two stores held before (several nodes with one id included).
C13_Convergence ==
    (spc = "done" /\ sret = <<TRUE>>)
        => \A i \in Entities : CountId(nodes, i) = (IF docs[i] # <<>> THEN 1 ELSE 0)

\* C14: sweep repair report. A sweep that completes returns a result that carries
\* created = |document ids - graph ids| and removed = |graph ids - document ids| for
\* the ids the stores held when it started.
C14_ReturnsCounts ==
    (spc = "done" /\ sret # <<FALSE>>)
        => /\ Len(sret) = 3
           /\ sret[2] = Cardinality(DocIds(docs0) \ ids0)
           /\ sret[3] = Cardinality(ids0 \ DocIds(docs0))

\* C15: sweep idempotence. A sweep started after a sweep that returned True, with no
\* write to either store in between, changes nothing in the graph store or in the
\* document store, runs no repair query and reports zero creations and zero removals.
C15_SweepIdempotent ==
    [][(spc \notin {"idle", "done"} /\ prior = <<TRUE>>)
        => /\ nodes' = nodes /\ edges' = edges /\ docs' = docs
           /\ repairs' = 0
           /\ (spc' = "done" /\ sret' = <<TRUE>>) => logged' = <<0, 0>>]_vars

\* a second sweep has completed after a first one that created a node, removed
\* another and returned True
C15_Witness ==
    /\ sweeps = 2 /\ spc = "done" /\ sret = <<TRUE>> /\ prior = <<TRUE>>
    /\ logged = <<0, 0>> /\ repairs = 0
    /\ \E k \in DOMAIN nodes : NodeTags(nodes[k]) = <<>>
    /\ detached # {}
\* the sweep in progress, or the last one, found id i missing in the graph store
FoundMissing(i) == i \in MissingInNeo4j(DocIds(mongo_insights), neo4j_ids)

\* a sync_insight call was made, and ended, after the sweep in progress or the last
\* sweep began
SyncedSince(p) == SyncDone(p) /\ sync0[2][p] < calls[p]

\* C16: the sweep tolerates being raced by sync_insight. When the one sweep run has
\* returned True, whatever calls of sync_insight(id, "create") were interleaved with
\* it, the graph store holds exactly one Insight node for every id the sweep found
\* missing in the graph store.
C16_RaceTolerated ==
    (sweeps = 1 /\ spc = "done" /\ sret = <<TRUE>>)
        => \A i \in Entities : FoundMissing(i) => CountId(nodes, i) = 1

\* a request inserted its document and called sync_insight(id, "create") while the
\* sweep ran; the sweep found that id missing in the graph store and returned True,
\* and the graph store holds one node for it
C16_Witness ==
    /\ sweeps = 1 /\ spc = "done" /\ sret = <<TRUE>>
    /\ \E p \in Requesters :
          /\ SyncedSince(p) /\ OpOf(p) = "create"
          /\ FoundMissing(IdOf(p))
          /\ CountId(nodes, IdOf(p)) = 1

\* the traffic so far is at most one request per requester, a create
CreatesOnly ==
    \A p \in Requesters :
        OpOf(p) = "create" /\ (calls[p] = 0 \/ (calls[p] = 1 /\ Kind(p) = "sync"))

\* C17: the sweep is safe to run with live traffic. While requests create documents
\* and call sync_insight(id, "create") for them, a DETACH DELETE of the sweep never
\* removes the Insight node of an id whose document exists at that moment.
C17_NoLiveDelete ==
    [][\A i \in Entities :
        (/\ CreatesOnly
         /\ spc = "remove" /\ repairs' # repairs
         /\ CountId(nodes', i) < CountId(nodes, i))
        => docs[i] = <<>>]_vars

\* a request inserted its document and called sync_insight(id, "create") while the
\* sweep ran, and the sweep deleted the node of an id that has no document
C17_Witness ==
    /\ sweeps = 1 /\ spc \in {"remove", "done"}
    /\ \E p \in Requesters :
          /\ SyncedSince(p) /\ OpOf(p) = "create"
          /\ docs0[IdOf(p)] = <<>> /\ docs[IdOf(p)] # <<>>
    /\ \E i \in ids0 : docs[i] = <<>> /\ CountId(nodes, i) = 0 /\ i \in neo4j_ids

\* the tags of the node n of id i are those of the document d: as its tags property, or
\* as its HAS_TAG edges
TagsAgree(n, i, d) ==
    \/ NodeTags(n) = <<d[2]>>
    \/ /\ NodeTags(n) = <<>>
       /\ {x[3] : x \in {y \in edges : y[1] = "HAS_TAG" /\ y[2] = i}} = {d[2][j] : j \in DOMAIN d[2]}

\* the graph store agrees with the document store on id i: a node exists exactly when
\* the document does, there is one, and it carries the document's title, its owner and
\* its tags
Agrees(i) ==
    IF docs[i] = <<>> THEN CountId(nodes, i) = 0
    ELSE /\ CountId(nodes, i) = 1
         /\ \A k \in DOMAIN nodes :
               NodeId(nodes[k]) = i
                  => /\ NodeTitle(nodes[k]) = docs[i][1]
                     /\ NodeUser(nodes[k]) = OwnerOf(i)
                     /\ TagsAgree(nodes[k], i, docs[i])

\* a sweep that started when no call was in progress has returned True, and no call
\* was started and no document written since it started
QuietSweepDone ==
    /\ spc = "done" /\ sret = <<TRUE>>
    /\ sync0 = <<pc, calls>>
    /\ \A p \in Procs : pc[p] \in {"idle", "done"} /\ Kind(p) # "request"
    /\ docs = docs0
    /\ vpc = "idle"

\* C18: a divergence left by a sync failure is recovered by the sweep. After a request
\* wrote its document and its sync_insight (create, update or delete) failed to write
\* the graph store, a sweep run with no concurrent mutation that returns True leaves
\* the graph store agreeing with the document store on that id: existence of the node,
\* title, tags and owner.
C18_SweepRecovers ==
    \A p \in Requesters :
        (SyncDone(p) /\ calls[p] = 1 /\ res[p] = "raised" /\ QuietSweepDone)
        => Agrees(IdOf(p))
\* the operations ensure_transaction invoked so far, in order
StepLog == SelectSeq(blog, LAMBDA e : e[1] = "step")

\* the compensations ensure_transaction invoked so far, in order
UndoLog == SelectSeq(blog, LAMBDA e : e[1] # "step")

\* C19: batch steps execute strictly in list order and execution stops at the first
\* step that raises. The operations invoked are operations 1, 2, .. in that order,
\* each once; operation k is invoked only after operations 1..k-1 returned without
\* raising; no operation is invoked after one that raised or after the rollback began;
\* and the batch returns True only after it invoked every operation.
C19_StepsInOrder ==
    /\ Len(StepLog) <= Len(operations)
    /\ \A j \in 1..Len(StepLog) : StepLog[j] = <<"step", j>>
    /\ \A j \in 1..(Len(StepLog) - 1) : ~operations[j][1]
    /\ \A a, b \in 1..Len(blog) : (a < b /\ blog[b][1] = "step") => blog[a][1] = "step"
    /\ bret = "true" => (Len(StepLog) = Len(operations) /\ UndoLog = <<>>)

\* a batch of three operations whose second raised: the third was never invoked
C19_Witness ==
    /\ bpc = "done" /\ bret = "false"
    /\ Len(operations) = 3 /\ operations[2][1] /\ ~operations[3][1]
    /\ StepLog = <<<<"step", 1>>, <<"step", 2>>>>
    /\ UndoLog # <<>>

\* C20 as stated: of two compensations, the one invoked first belongs to a later step
\* than the other, or to the same step and is then its graph compensation.
C20_StepwiseReverse ==
    \A a, b \in 1..Len(UndoLog) :
        a < b => \/ UndoLog[a][2] > UndoLog[b][2]
                 \/ /\ UndoLog[a][2] = UndoLog[b][2]
                    /\ UndoLog[a][1] = "undo_n" /\ UndoLog[b][1] = "undo_m"

\* step k returned without raising and gave a callable compensation for the store
CompensationOf(kind, k) ==
    /\ k \in 1..Len(StepLog)
    /\ ~operations[k][1] /\ operations[k][2]
    /\ operations[k][IF kind = "undo_m" THEN 3 ELSE 4] = "fn"

\* C20: rollback ordering. When step k of a batch fails, the graph compensations of the
\* completed steps are invoked first, in reverse step order, and then the document
\* compensations, in reverse step order: within a step the graph compensation runs
\* before the document one, and within a store the compensation of a later step runs
\* before that of an earlier step. Only callables returned by completed steps are
\* invoked, each at most once, the failing step has none, and a rollback that returns
\* False has invoked them all.
C20_StorewiseReverse ==
    /\ \A a, b \in 1..Len(UndoLog) :
          a < b => \/ UndoLog[a][1] = "undo_n" /\ UndoLog[b][1] = "undo_m"
                   \/ UndoLog[a][1] = UndoLog[b][1] /\ UndoLog[a][2] > UndoLog[b][2]
    /\ \A a \in 1..Len(UndoLog) : CompensationOf(UndoLog[a][1], UndoLog[a][2])
    /\ bret = "false" =>
          \A k \in 1..Len(operations) : \A kind \in {"undo_n", "undo_m"} :
              CompensationOf(kind, k) => \E a \in 1..Len(UndoLog) : UndoLog[a] = <<kind, k>>

\* the batch of three steps whose third fails: the compensations ran in the order
\* graph 2, graph 1, document 2, document 1
C20_Witness ==
    /\ bret = "false"
    /\ StepLog = <<<<"step", 1>>, <<"step", 2>>, <<"step", 3>>>>
    /\ UndoLog = <<<<"undo_n", 2>>, <<"undo_n", 1>>, <<"undo_m", 2>>, <<"undo_m", 1>>>>
\* every callable compensation the completed steps returned is in the log l
AllInvoked(l) ==
    \A k \in 1..Len(operations) : \A kind \in {"undo_n", "undo_m"} :
        CompensationOf(kind, k) => \E a \in 1..Len(l) : l[a] = <<kind, k>>

\* C21: best-effort rollback. The call of a compensation, or the ROLLBACK of the graph
\* transaction a graph compensation raised in, never ends the batch unless every
\* collected compensation, graph and document, has been invoked, and the batch then
\* returns False: a compensation that fails does not stop the rollback.
C21_BestEffort ==
    [][(bpc \in {"undo_n", "rollback_tx", "undo_m"} /\ bpc' = "done")
        => /\ bret' = "false"
           /\ AllInvoked(SelectSeq(blog', LAMBDA e : e[1] # "step"))]_vars

\* C22: ensure_transaction never raises to its caller: when it has ended it has
\* returned True if every operation succeeded and False otherwise.
C22_NeverRaises ==
    bpc = "done" =>
        /\ bret # "raised"
        /\ (bret = "true") <=> (\A k \in 1..Len(operations) : ~operations[k][1])

\* C23: compensation lifecycle. A compensation is invoked only if it is a callable
\* returned by a step that completed successfully and a later step of the batch was
\* invoked and raised; the failing step contributes none; no compensation is invoked
\* twice; and a batch that returned True invoked none.
C23_Lifecycle ==
    /\ \A a \in 1..Len(UndoLog) :
          /\ CompensationOf(UndoLog[a][1], UndoLog[a][2])
          /\ \E j \in 1..Len(StepLog) : j > UndoLog[a][2] /\ operations[j][1]
    /\ \A a, b \in 1..Len(UndoLog) : UndoLog[a] = UndoLog[b] => a = b
    /\ bret = "true" => UndoLog = <<>>

\* a batch whose first step gave two compensations, whose second gave none and whose
\* third raised was rolled back: the two compensations of step 1 were invoked, once
C23_Witness ==
    /\ bpc = "done" /\ bret = "false"
    /\ Len(operations) = 3
    /\ operations[1] = Operation(FALSE, TRUE, "fn", "fn")
    /\ operations[2] = Operation(FALSE, FALSE, "none", "none")
    /\ operations[3][1]
    /\ UndoLog = <<<<"undo_n", 1>>, <<"undo_m", 1>>>>
\* the invocations of the operation the retry loop made so far, in order
CallLog == SelectSeq(rlog, LAMBDA e : e[1] = "call")

\* the sleeps of the retry loop so far, in order
SleepLog == SelectSeq(rlog, LAMBDA e : e[1] = "sleep")

\* the error is of a transient class: connection, service unavailable, timeout
Transient(err) ==
    err \in {"ConnectionError", "TimeoutError", "ConnectionFailure",
             "ServerSelectionTimeoutError", "ServiceUnavailable"}

\* the loop made at least one and at most max_attempts invocations, numbered in order,
\* none after a successful one, and if it returned it returned the value of its last
\* invocation, which succeeded
BoundedRun ==
    /\ Len(CallLog) <= rmax
    /\ \A k \in 1..Len(CallLog) : CallLog[k][2] = k
    /\ \A k \in 1..(Len(CallLog) - 1) : CallLog[k][3] # "ok"
    /\ rpc = "done" =>
          /\ Len(CallLog) >= 1
          /\ rret[1] = "returned" =>
                (CallLog[Len(CallLog)][3] = "ok" /\ rret[2] = Len(CallLog))

\* C24 as stated: for max_attempts >= 1 the operation is invoked at least once and at
\* most max_attempts times, whatever the state of the client.
C24_InvokedAtLeastOnce ==
    rmax >= 1 => BoundedRun

\* C24: execute_with_retry is bounded. On a client constructed with max_attempts >= 1
\* whose connection is set (the wrappers of the key-value and graph clients raise
\* ConnectionError without invoking the operation when it is not), the operation is
\* invoked at least once and at most max_attempts times, the wrapper returns the result
\* of the first successful invocation without invoking it again, and the wrapper
\* always terminates.
C24_Bounded ==
    /\ []((rmax >= 1 /\ (Guarded(rwrap) => rclient)) => BoundedRun)
    /\ (rpc = "attempt") ~> (rpc = "done")

\* a run of three attempts that succeeded at the third
C24_Witness ==
    /\ rpc = "done" /\ rmax = 3 /\ rret = <<"returned", 3>>
    /\ Len(CallLog) = 3 /\ CallLog[1][3] # "ok" /\ CallLog[2][3] # "ok"

\* C25: only transient failures are retried. When an invocation fails with an error
\* that is not transient, it is the only invocation, the wrapper does not sleep, and
\* it ends by raising that error.
C25_OnlyTransientRetried ==
    \A k \in 1..Len(CallLog) :
        (CallLog[k][3] # "ok" /\ ~Transient(CallLog[k][3]))
            => /\ Len(CallLog) = 1
               /\ SleepLog = <<>>
               /\ rpc = "done" /\ rret = <<"raised", CallLog[k][3]>>

\* the sum of the wait times of the sleeps 1..n
RECURSIVE TotalSleep(_)
TotalSleep(n) == IF n = 0 THEN 0 ELSE TotalSleep(n - 1) + SleepLog[n][2]

\* C26: exponential backoff. The loop sleeps exactly once after every failed attempt
\* k that is not the last, for base_delay * 2^(k-1), and never after the last attempt:
\* a run that exhausts its max_attempts attempts has slept max_attempts - 1 times, for
\* base_delay * (2^(max_attempts-1) - 1) in all.
C26_ExponentialBackoff ==
    /\ \A j \in 1..Len(rlog) :
          IF j % 2 = 1 THEN rlog[j][1] = "call" /\ rlog[j][2] = (j + 1) \div 2
          ELSE /\ rlog[j] = <<"sleep", rbase * 2^((j \div 2) - 1)>>
               /\ rlog[j - 1][3] # "ok"
               /\ j \div 2 < rmax
    /\ rpc = "attempt" => Len(rlog) = 2 * (rattempt - 1)
    /\ rpc = "done" =>
          /\ (rlog # <<>> => rlog[Len(rlog)][1] = "call")
          /\ (Len(CallLog) = rmax /\ rmax >= 1) =>
                /\ Len(SleepLog) = rmax - 1
                /\ TotalSleep(Len(SleepLog)) = rbase * (2^(rmax - 1) - 1)

\* a run of the largest base delay that failed three times: it slept twice, for the
\* base delay and then for twice the base delay
C26_Witness ==
    /\ rpc = "done" /\ rmax = 3 /\ rbase = MaxBaseDelay /\ rret[1] = "raised"
    /\ SleepLog = <<<<"sleep", MaxBaseDelay>>, <<"sleep", 2 * MaxBaseDelay>>>>
    /\ Len(CallLog) = 3 /\ Caught(rwrap, CallLog[3][3])

\* C27: exhausted retries surface an error. When every one of the max_attempts
\* attempts failed with a transient error, the wrapper ended by raising the error of
\* the last attempt: it returned no value.
C27_ExhaustedRaises ==
    (/\ rpc = "done" /\ rmax >= 1 /\ Len(CallLog) = rmax
     /\ \A k \in 1..Len(CallLog) : Transient(CallLog[k][3]))
        => rret = <<"raised", CallLog[rmax][3]>>

\* a run whose three attempts failed with connection and timeout errors has raised
C27_Witness ==
    /\ rpc = "done" /\ rmax = 3 /\ Len(CallLog) = 3
    /\ rwrap = <<"redis", "execute">>
    /\ CallLog[1][3] = "ConnectionError" /\ CallLog[2][3] = "TimeoutError"
    /\ CallLog[3][3] = "ConnectionError"
    /\ rret = <<"raised", "ConnectionError">>
\* the pings and the sleeps of the connect loop coroutine t is in, or was in last
Pings(t) == SelectSeq(tlog[t], LAMBDA e : e[1] = "ping")
Sleeps(t) == SelectSeq(tlog[t], LAMBDA e : e[1] = "sleep")

\* the store s has its singleton, whose connection is set and answered the ping
StoreConnected(s) == singleton[s] # 0 /\ inst[singleton[s]] = <<s, TRUE, TRUE>>

\* C28: connect() uses the same bounded backoff loop and a failure to connect is fatal.
\* The connect loop makes at most max_retry_attempts turns; for redis and mongodb a
\* turn is one ping and the loop sleeps retry_delay * 2^(k-1) after the k-th failed
\* ping; for neo4j a turn makes at most max_retry_attempts round trips and every sleep
\* is a power-of-two multiple of retry_delay below 2^(max_retry_attempts-1). When
\* connect is left by an error, init_* raises, and when it raises on the error of a
\* round trip its except clause catches, all max_retry_attempts turns were made; an
\* init_* that returned after its connect left the store connected or closed since.
\* The startup hook never completes with a store left unconnected: when it has ended
\* without raising, the three stores are connected.
C28_ConnectFatal ==
    \A t \in Tasks :
        /\ tatt[t] <= MaxRetryAttempts
        /\ tcall[t][1] = "init" =>
              IF RunsQuery(tcall[t][2])
              THEN /\ Len(Pings(t)) <= MaxRetryAttempts * tatt[t]
                   /\ Len(Pings(t)) >= (IF tpc[t] = "ping" THEN tatt[t] - 1 ELSE tatt[t])
                         \/ tlog[t] = <<>>
                   /\ \A k \in 1..Len(Sleeps(t)) :
                         \E e \in 0..(MaxRetryAttempts - 2) : Sleeps(t)[k] = <<"sleep", 2^e>>
              ELSE /\ Len(Pings(t)) <= MaxRetryAttempts
                   /\ \A k \in 1..Len(Sleeps(t)) : Sleeps(t)[k] = <<"sleep", 2^(k - 1)>>
        /\ (tcall[t][1] = "init" /\ tpc[t] = "done" /\ tlog[t] # <<>>)
              => LET last == tlog[t][Len(tlog[t])]
                 IN /\ (last[1] = "sleep" \/ last[2] # "ok") => tres[t] = <<"raised">>
                    /\ last[1] = "sleep" => RunsQuery(tcall[t][2])
                    /\ (/\ tres[t] = <<"raised">> /\ last[1] = "ping"
                        /\ Caught(<<tcall[t][2], "connect">>, last[2]))
                          => tatt[t] = MaxRetryAttempts
                    /\ tres[t] # <<"raised">> => Connected(tinst[t])
        /\ (tcall[t][1] = "startup" /\ tpc[t] = "done" /\ tres[t] # <<"raised">>)
              => \A s \in Stores : StoreConnected(s)

\* init_redis raised after three failed pings with the sleeps 1 and 2 between them,
\* leaving the store unconnected
C28_Witness ==
    \E t \in Tasks :
        /\ tcall[t] = <<"init", "redis">> /\ tpc[t] = "done" /\ tres[t] = <<"raised">>
        /\ tlog[t] = <<<<"ping", "ConnectionError">>, <<"sleep", 1>>,
                       <<"ping", "TimeoutError">>, <<"sleep", 2>>,
                       <<"ping", "ConnectionError">>>>
        /\ ~StoreConnected("redis")
\* the step is a call of check_health by t on a client whose _client / _driver is unset
HealthOfUnset(t) ==
    /\ tcalls'[t] = tcalls[t] + 1
    /\ tcall'[t][1] = "health"
    /\ ~ClientSet(tinst'[t])

\* C29: health_check never raises. A call of check_health that is over has returned a
\* boolean, in every state of the client: it made at most one round trip (at most
\* max_retry_attempts for neo4j, whose probe retries), it returned False when its probe
\* ended with an error of any class, True only when the last round trip of its probe
\* answered, and a call on a client whose underlying client is unset returns False at
\* once, with no probe.
C29_HealthNeverRaises ==
    /\ [](\A t \in Tasks :
            (tcall[t][1] = "health" /\ tpc[t] = "done")
               => /\ tres[t] \in {<<"returned", TRUE>>, <<"returned", FALSE>>}
                  /\ Len(Pings(t)) <= (IF RunsQuery(tcall[t][2]) THEN MaxRetryAttempts ELSE 1)
                  /\ ~RunsQuery(tcall[t][2]) => Sleeps(t) = <<>>
                  /\ (tlog[t] # <<>> /\ tlog[t][Len(tlog[t])] # <<"ping", "ok">>)
                        => tres[t] = <<"returned", FALSE>>
                  /\ tres[t] = <<"returned", TRUE>>
                        => tlog[t] # <<>> /\ tlog[t][Len(tlog[t])] = <<"ping", "ok">>)
    /\ [][\A t \in Tasks :
            HealthOfUnset(t)
               => tpc'[t] = "done" /\ tres'[t] = <<"returned", FALSE>> /\ tlog'[t] = <<>>]_vars

\* check_health on the connected redis singleton while the store is unreachable: the
\* ping raised ConnectionError and the call returned False
C29_Witness ==
    \E t \in Tasks :
        /\ tcall[t] = <<"health", "redis">> /\ tpc[t] = "done"
        /\ StoreConnected("redis") /\ tinst[t] = singleton["redis"]
        /\ tlog[t] = <<<<"ping", "ConnectionError">>>>
        /\ tres[t] = <<"returned", FALSE>>
\* the client objects of store s that exist: the singleton and every object that
\* holds a connection
Living(s) == {c \in 1..Len(inst) : StoreOf(c) = s /\ (singleton[s] = c \/ ClientSet(c))}

\* the step is a call by t of the function kind of store s
Calls(t, kind, s) == tcalls'[t] = tcalls[t] + 1 /\ tcall'[t] = <<kind, s>>

\* C30: singleton lifecycle. For each store, under any sequence and interleaving of
\* init_*, get_* and close_* calls, at most one client instance exists at a time; an
\* init_* call constructs a client only when none exists, and otherwise returns the
\* singleton as it is; a call of init_* that returns, returns the singleton it found
\* or constructed; get_* raises exactly when the singleton is unset; close_* on an
\* unset singleton changes nothing, and a close_* that returns leaves the singleton
\* unset.
C30_SingletonLifecycle ==
    /\ [](\A s \in Stores : Cardinality(Living(s)) <= 1)
    /\ [][\A t \in Tasks, s \in Stores :
            /\ Calls(t, "init", s)
                  => IF Living(s) = {} THEN Len(inst') = Len(inst) + 1
                     ELSE inst' = inst /\ tres'[t] = <<"returned", singleton[s]>>
            /\ Calls(t, "get", s)
                  => tres'[t] = (IF singleton[s] = 0 THEN <<"raised">>
                                 ELSE <<"returned", singleton[s]>>)
            /\ (Calls(t, "close", s) /\ singleton[s] = 0)
                  => inst' = inst /\ singleton' = singleton /\ tres'[t] = <<"returned", 0>>
            /\ ((Calls(t, "close", s) \/ (tcall[t] = <<"close", s>> /\ tpc[t] = "closing"))
                   /\ tpc'[t] = "done" /\ tres'[t] = <<"returned", 0>>)
                  => singleton'[s] = 0
            /\ (tcall[t] = <<"init", s>> /\ tpc[t] = "ping" /\ tpc'[t] = "done"
                   /\ tres'[t] # <<"raised">>)
                  => tres'[t] = <<"returned", tinst[t]>>]_vars
\* C38: for every configured max_retry_attempts >= 0, execute_with_retry has exactly
\* two outcomes: it returns a value produced by an actual invocation of the operation,
\* or it raises; it never returns without having invoked the operation. A loop that
\* is over has raised, or has returned the value of an invocation that succeeded.
C38_ReturnsInvocationValue ==
    rpc = "done" =>
        \/ rret[1] = "raised"
        \/ /\ rret[1] = "returned"
           /\ \E j \in 1..Len(CallLog) : CallLog[j] = <<"call", rret[2], "ok">>
\* the step destroys the lock key of name n
Destroyed(n) == Val(lock[n]) # <<>> /\ Val(lock'[n]) = <<>>

\* C31: lock liveness under holder crash. A lock key is destroyed only by a release
\* presenting the stored token or by TTL expiry; if the holder crashes without
\* releasing, the key eventually expires; and a later acquire for the same name by
\* another caller ends, and returns true when the store answers it while the key is
\* absent.
C31_LockLiveness ==
    /\ [][\A n \in Ids :
            Destroyed(n) =>
               \/ pc' = pc /\ Ttl(lock[n]) = 1
               \/ \E p \in Procs :
                     /\ pc[p] = "rel_del" /\ pc'[p] = "done" /\ IdOf(p) = n
                     /\ Val(lock[n]) = <<Token(p)>>]_vars
    /\ [][\A q \in Procs :
            (/\ pc[q] = "acq" /\ pc'[q] = "done"
             /\ Val(lock[IdOf(q)]) = <<>> /\ "acq" \notin exhausted'[q])
            => res'[q] = "true" /\ Val(lock'[IdOf(q)]) = <<Token(q)>>]_vars
    /\ \A p \in Procs : \A n \in Ids :
          (pc[p] = "crashed" /\ Val(lock[n]) = <<Token(p)>>) ~> (Val(lock[n]) = <<>>)
    /\ \A q \in Procs : (pc[q] = "acq") ~> (pc[q] \in {"done", "crashed"})
\* the step is the failure of a store call of the sweep
SweepFailure == spc \notin {"idle", "done"} /\ spc' = "done" /\ sret' # <<TRUE>>

\* C36: sweep failure is contained. If any store call fails during the sweep,
\* perform_full_consistency_check returns False without raising; the failing call
\* changes nothing, so the repairs applied before it remain applied; no repair is
\* attempted after it; and the graph store is left between the initial state and the
\* converged one: its ids contain those both stores held and are among those either
\* store held, no repair ran or one at least is left to do, and once a repair ran
\* the ids the sweep is done with agree with the document store.
C36_FailureContained ==
    /\ [](spc = "done" => sret \in {<<TRUE>>, <<FALSE>>})
    /\ []((spc = "done" /\ sret = <<FALSE>>) =>
            /\ missing \cup orphaned # {} \/ tagging # <<>> \/ repairs = 0
            /\ (ids0 \cap DocIds(docs0)) \subseteq GraphIds(nodes)
            /\ GraphIds(nodes) \subseteq (ids0 \cup DocIds(docs0))
            /\ repairs >= 1 =>
                  \A i \in Entities \ (missing \cup orphaned) :
                      (i \in GraphIds(nodes)) <=> (i \in DocIds(docs0)))
    /\ [][/\ SweepFailure =>
               /\ sret' = <<FALSE>>
               /\ nodes' = nodes /\ edges' = edges /\ repairs' = repairs
               /\ missing' = missing /\ orphaned' = orphaned
          /\ (spc = "done" /\ spc' = "done") => (nodes' = nodes /\ edges' = edges)]_vars

\* a sweep that found two ids to create and one to remove failed at its second CREATE:
\* the first node is there, the second is not, the orphan is still there
C36_Witness ==
    /\ spc = "done" /\ sret = <<FALSE>>
    /\ repairs >= 1
    /\ Cardinality(missing) = 1 /\ Cardinality(orphaned) = 1
    /\ missing \cap GraphIds(nodes) = {}
    /\ orphaned \subseteq GraphIds(nodes)
    /\ GraphIds(nodes) # ids0
\* the probes of the /health request of t that answered
Answered(t) == {s \in Stores : \E j \in 1..Len(tlog[t]) : tlog[t][j] = <<"probe", s, "ok">>}

\* C33: the /health endpoint always answers with HTTP 200 and never fails, and its
\* status is "healthy" when the health checks of all three stores return true, and
\* not "healthy" when any of them returns false or any client is uninitialised. A
\* request that is over was answered 200 with the status healthy or degraded; it is
\* healthy exactly when the three entries of db_status are true, and an entry is true
\* exactly when the probe of that store answered; a request made while a singleton
\* is unset is answered degraded at once.
C33_HealthEndpoint ==
    /\ [](\A t \in Tasks :
            (tcall[t][1] = "endpoint" /\ tpc[t] = "done")
               => /\ tres[t] \in {<<"returned", 200, "healthy">>, <<"returned", 200, "degraded">>}
                  /\ (tres[t][3] = "healthy") <=> (\A s \in Stores : estatus[t][s])
                  /\ \A s \in Stores : estatus[t][s] <=> (s \in Answered(t)))
    /\ [][\A t \in Tasks :
            (/\ tcalls'[t] = tcalls[t] + 1 /\ tcall'[t][1] = "endpoint"
             /\ \E s \in Stores : singleton[s] = 0)
            => tpc'[t] = "done" /\ tres'[t] = <<"returned", 200, "degraded">>]_vars

\* t's call of init_<s> or get_<s> ends in this step, handing out the client object c
HandsOut(t, c) ==
    /\ tcall'[t][1] \in {"init", "get"}
    /\ tpc[t] # "done" \/ tcalls'[t] # tcalls[t]
    /\ tpc'[t] = "done"
    /\ tres'[t] = <<"returned", c>>

\* C37: a singleton getter never hands out an unconnected client: whenever a call of
\* init_<s> or get_<s> returns a client, whatever connect attempts failed before and
\* whatever other init_<s> is running, the connect() of that client has completed
\* successfully and it holds the connection that answered the ping; so an init_<s>
\* that finds a singleton whose connect failed retries the connection or raises
C37_NeverUnconnected ==
    [][\A t \in Tasks, c \in 1..MaxInstances :
          HandsOut(t, c) => (c \in 1..Len(inst') /\ inst'[c][2] /\ inst'[c][3])]_vars

\* the graph store holds a node with id i
Projects(g, i) == CountId(g, i) > 0

\* C35: single-entity repair, nobody else writing the stores: a call of
\* ensure_insight_consistency(id) always returns a boolean, false when the id is no
\* ObjectId; when it returned true, the graph store holds a node with that id if and
\* only if the document store holds the entity, and when both or neither held it before
\* the call the graph store is as it was before the call
C35_SingleEntityRepair ==
    (xpc = "done" /\ RepairKind = "insight") =>
        /\ xret \in {<<TRUE>>, <<FALSE>>}
        /\ SourceId = 0 => xret = <<FALSE>>
        /\ xret = <<TRUE>> =>
              /\ Projects(nodes, SourceId) <=> docs[SourceId] # <<>>
              /\ (Projects(xg0[1], SourceId) <=> docs[SourceId] # <<>>)
                    => <<nodes, edges>> = xg0

\* a repair that returned true after creating the projection of a document the graph
\* store lacked
C35_Witness ==
    /\ xpc = "done"
    /\ RepairKind = "insight"
    /\ xret = <<TRUE>>
    /\ docs[SourceId] # <<>>
    /\ ~Projects(xg0[1], SourceId)
    /\ Projects(nodes, SourceId)

\* the ids among a and b with no document
Absent2(a, b) == {i \in {a, b} : docs[i] = <<>>}

\* C34: relationship repair, nobody else writing the stores: when
\* ensure_relationship_consistency(source_id, target_id) returned true and an endpoint
\* has no document, the graph holds no edge between the two ids in either direction, no
\* node for an absent endpoint and no edge touching such a node; when both endpoints have
\* a document the graph is as it was before the call
C34_RelationshipRepair ==
    (xpc = "done" /\ RepairKind = "relationship" /\ xret = <<TRUE>>) =>
        IF Absent2(SourceId, TargetId) # {}
        THEN /\ DeleteRelationships(edges, SourceId, TargetId) = edges
             /\ \A i \in Absent2(SourceId, TargetId) :
                    ~Projects(nodes, i) /\ EdgesOf(edges, i) = {}
        ELSE <<nodes, edges>> = xg0

\* a repair of two distinct ids that returned true: the source has no document, the
\* target has one, and before the call the graph held both nodes and an edge between them
C34_Witness ==
    /\ xpc = "done"
    /\ RepairKind = "relationship"
    /\ xret = <<TRUE>>
    /\ SourceId # TargetId
    /\ docs[SourceId] = <<>>
    /\ docs[TargetId] # <<>>
    /\ Projects(xg0[1], SourceId)
    /\ Projects(xg0[1], TargetId)
    /\ DeleteRelationships(xg0[2], SourceId, TargetId) # xg0[2]

\* the step is the insert of an endpoint (create_insight)
EndpointWrites ==
    \E p \in Requesters :
        pc[p] \in {"idle", "done"} /\ call'[p] # call[p] /\ call'[p][1] = "request"

\* C32: the document store is the sole source of truth: no step of sync_insight
\* (whatever the operation and the outcome), of the reconciliation sweep or of
\* ensure_insight_consistency inserts, updates or deletes a document; the insights
\* collection changes only in the write of an endpoint
C32_SoleSourceOfTruth ==
    [][docs' # docs => EndpointWrites]_vars

\* the sync_insight of a request has ended, a sweep that repaired a difference has
\* returned true, and an ensure_insight_consistency that found no document has returned
\* true, leaving no node for an id whose document was inserted and projected by the
\* startup task in the meantime
C32_Witness ==
    /\ \E p \in Procs : SyncDone(p)
    /\ spc = "done" /\ sret = <<TRUE>> /\ repairs >= 1
    /\ xpc = "done" /\ xret = <<TRUE>> /\ RepairKind = "insight"
    /\ xfound[1] = <<>>
    /\ docs[SourceId] # <<>> /\ vpc = "done" /\ vsnap[SourceId] # <<>>
    /\ ~Projects(nodes, SourceId)

\* C39: rate-limit counters always expire: in every reachable state, a failure or a
\* crash between the INCR and the EXPIRE of increment_counter and concurrent increments
\* of the key included, a counter key that exists carries a TTL; so once a client was
\* rejected the key eventually expires and the client is admitted again
C39_CountersExpire ==
    /\ [](ctr[1] > 0 => ctr[2] > 0)
    /\ (\E c \in Clients : qres[c] = "rejected") ~> (ctr[1] = 0)

====
